---- MODULE Spec2Model ----
(***************************************************************************)
(* The cross-device synchronisation layer of the planning documents:       *)
(* SyncService, DatabaseSyncAdapter, ConversationSyncService,              *)
(* useMessageActions and OfflineSyncQueue (docs/.../implementation plan),  *)
(* over a Yjs document (Y.Doc / Y.Array) and an AsyncStorage log.          *)
(*                                                                         *)
(* The specifications share the definitions below; the three main ones:    *)
(*   SpecCrdt : the Document Store's merge on independent replicas         *)
(*   Spec     : one process that starts sync and runs its OfflineSyncQueue *)
(*              over Document, datastore and durable log, with process     *)
(*              kill and restart                                           *)
(*   SpecSync : two peers running start/stop/send with peer delivery       *)
(***************************************************************************)
EXTENDS Integers, Sequences, FiniteSets, TLC

\* ------------------------------------------------------------------ bounds
MaxItems == 3        \* items created in a run of SpecCrdt
MaxMsgs == 2         \* messages the application creates in a run
MaxDocs == 3         \* Y.Doc objects created in a run
MaxCrashes == 1      \* process kills in a run of Spec
MaxOps == 1          \* queued edit / delete updates one peer drains in a run
MaxTime == 3         \* clock ticks in a run of SpecPresence

Replicas == 1 .. 3   \* independent replicas of SpecCrdt; a replica's number is its clientID
Entries == 1 .. MaxMsgs   \* Entry identifiers, numbered in creation order
Peers == {"A", "B"}
Local == "A"         \* the process whose OfflineSyncQueue Spec follows
Tasks == {1, 2}      \* concurrent callers of processQueue
Topics == {"t1", "t2"}    \* conversations (topicId) of one process
Keys == {1, 2}       \* shared secrets a key exchange may yield
Nonces == {1, 2}     \* values nacl.randomBytes may return for a nonce
NoKey == 0           \* sharedKey = null
Callbacks == {1, 2}  \* callbacks the application may pass to onPresenceChange

\* ------------------------------------------------------------------ Document Store
\* An item of the Y.Array 'messages': id = <<clientID, clock>>, origin = id of the
\* item that was its left neighbour when it was pushed (NoId at the start), e the
\* Entry's identifier.  yarray.push never sets a right origin.
NoId == <<0, 0>>

NoDoc == [client |-> 0, seq |-> <<>>, pend |-> {}, del |-> {}, edits |-> {}]

NewDoc(c) == [client |-> c, seq |-> <<>>, pend |-> {}, del |-> {}, edits |-> {}]

Ids(seq) == {seq[i].id : i \in 1 .. Len(seq)}

\* the state vector: the next clock expected of client c
StateVector(seq, c) == Cardinality({i \in 1 .. Len(seq) : seq[i].id[1] = c})

IndexOf(seq, id) == IF id = NoId THEN 0 ELSE CHOOSE i \in 1 .. Len(seq) : seq[i].id = id

Known(seq, it) == it.id[2] < StateVector(seq, it.id[1])

CanIntegrate(seq, it) ==
    /\ it.id[2] = StateVector(seq, it.id[1])
    /\ it.origin = NoId \/ it.origin \in Ids(seq)

\* The conflict scan of an insertion: o runs right from the origin; the result is
\* the index the new item is inserted after.
RECURSIVE FindLeft(_, _, _, _, _, _)
FindLeft(seq, it, j, left, before, conflicting) ==
    IF j > Len(seq) THEN left
    ELSE LET o == seq[j]
             b == before \cup {o.id}
             c == conflicting \cup {o.id}
         IN  IF o.origin = it.origin
             THEN IF o.id[1] < it.id[1]
                  THEN FindLeft(seq, it, j + 1, j, b, {})
                  ELSE left
             ELSE IF o.origin # NoId /\ o.origin \in b
                  THEN IF o.origin \notin c
                       THEN FindLeft(seq, it, j + 1, j, b, {})
                       ELSE FindLeft(seq, it, j + 1, left, b, c)
                  ELSE left

InsertAfter(seq, left, it) ==
    SubSeq(seq, 1, left) \o <<it>> \o SubSeq(seq, left + 1, Len(seq))

\* (mutation) integration in arrival order
IntegrateArrival(seq, it) == Append(seq, it)

Integrate(seq, it) ==
    LET o == IndexOf(seq, it.origin)
    IN  InsertAfter(seq, FindLeft(seq, it, o + 1, o, {}, {}), it)

\* items that waited for a missing predecessor are integrated as soon as they can be
RECURSIVE IntegratePending(_)
IntegratePending(doc) ==
    LET ready == {it \in doc.pend : CanIntegrate(doc.seq, it)}
        stale == {it \in doc.pend : Known(doc.seq, it)}
    IN  IF stale # {}
        THEN IntegratePending([doc EXCEPT !.pend = doc.pend \ stale])
        ELSE IF ready = {} THEN doc
        ELSE LET it == CHOOSE x \in ready : TRUE
             IN  IntegratePending([doc EXCEPT !.seq = Integrate(doc.seq, it),
                                              !.pend = doc.pend \ {it}])

\* (mutation) a merge that does not consult the state vector
MergeItemAgain(doc, it) ==
    IntegratePending([doc EXCEPT !.seq = Append(doc.seq, it)])

MergeItem(doc, it) ==
    IF Known(doc.seq, it) THEN doc
    ELSE IF CanIntegrate(doc.seq, it)
         THEN IntegratePending([doc EXCEPT !.seq = Integrate(doc.seq, it)])
         ELSE [doc EXCEPT !.pend = doc.pend \cup {it}]

\* An Update is the sequence of items one transaction produced.
RECURSIVE MergeRemoteUpdate(_, _)
MergeRemoteUpdate(doc, u) ==
    IF u = <<>> THEN doc
    ELSE MergeRemoteUpdate(MergeItem(doc, Head(u)), Tail(u))

\* yarray.push(es) inside one transaction: the items the push creates
RECURSIVE PushItems(_, _, _, _)
PushItems(c, k, origin, es) ==
    IF es = <<>> THEN <<>>
    ELSE <<[id |-> <<c, k>>, origin |-> origin, e |-> Head(es)]>>
         \o PushItems(c, k + 1, <<c, k>>, Tail(es))

LastId(seq) == IF seq = <<>> THEN NoId ELSE seq[Len(seq)].id

LocalUpdate(doc, es) ==
    PushItems(doc.client, StateVector(doc.seq, doc.client), LastId(doc.seq), es)

ApplyLocalMutation(doc, es) == [doc EXCEPT !.seq = doc.seq \o LocalUpdate(doc, es)]

\* the visible Entry sequence
Live(doc) == SelectSeq(doc.seq, LAMBDA it : it.id \notin doc.del)

Visible(doc) == [i \in 1 .. Len(Live(doc)) |-> Live(doc)[i].e]

\* the transactions of SpecCrdt: a push of one Entry, or a batch of two
Batches == {<<1>>, <<1, 2>>}

ItemsOf(doc) == {doc.seq[i] : i \in 1 .. Len(doc.seq)} \cup doc.pend

VARIABLES rep, wire, again
VARIABLES ydocs, providers, activeConversations, syncing, observing, startPc,
          db, dbq, connected, docsMade, sent
VARIABLES up, queue, stored, writes, isProcessing, pc, enqLog, enqDone,
          applied, lastApplied, reports, refused, overlapped, crashes
VARIABLES drained, tombOps
VARIABLES dbUp, issued, landed, failed, surfaced
VARIABLES stopRet
VARIABLES topicDocs, topicActive, adapterSyncing, topicObserved, topicPc, topicRows,
          topicUpserts
VARIABLES secDoc, sharedKey, inFlight, sealedFrames, outcome
VARIABLES config, sentOut
VARIABLES now, awStates, handlers, heard, lastInvoked, unsubscribed, lastTouched
VARIABLES yobservers, cleaned
VARIABLES mergeDocs, mergeWire, mergeErr, refusedAt, mergedAfterRefusal
VARIABLES liveProviders
VARIABLES lastSyncedAt, started
VARIABLES sendResult
VARIABLES held, threw

crdtVars == <<rep, wire, again>>

syncVars == <<ydocs, providers, activeConversations, syncing, observing, startPc,
              db, dbq, connected, docsMade, sent>>

queueVars == <<up, queue, stored, writes, isProcessing, pc, enqLog, enqDone,
               applied, lastApplied, reports, refused, overlapped, crashes>>

typedVars == <<drained, tombOps>>

mirrorVars == <<dbUp, issued, landed, failed, surfaced>>

lifeVars == <<stopRet>>

topicVars == <<topicDocs, topicActive, adapterSyncing, topicObserved, topicPc, topicRows,
               topicUpserts>>

cryptoVars == <<secDoc, sharedKey, inFlight, sealedFrames, outcome>>

broadcastVars == <<config, sentOut>>

presenceVars == <<now, awStates, handlers, heard, lastInvoked, unsubscribed, lastTouched>>

observerVars == <<yobservers, cleaned>>

mergeVars == <<mergeDocs, mergeWire, mergeErr, refusedAt, mergedAfterRefusal>>

sessionVars == <<liveProviders>>

statusVars == <<lastSyncedAt, started>>

sendVars == <<sendResult>>

drainVars == <<held, threw>>

auxVars == <<typedVars, mirrorVars, lifeVars, topicVars, cryptoVars, broadcastVars,
             presenceVars, observerVars, mergeVars, sessionVars, statusVars, sendVars, drainVars>>

vars == <<crdtVars, syncVars, queueVars, auxVars>>

RetryCeiling == 3

NotSent == [by |-> "", online |-> FALSE]

CrdtInit ==
    /\ rep = [r \in Replicas |-> NewDoc(r)]
    /\ wire = {}
    /\ again = FALSE

\* new SyncService / DatabaseSyncAdapter / ConversationSyncService: empty maps,
\* syncing = false; an empty datastore on each peer
SyncInit ==
    /\ ydocs = [p \in Peers |-> NoDoc]
    /\ providers = [p \in Peers |-> FALSE]
    /\ activeConversations = [p \in Peers |-> FALSE]
    /\ syncing = [p \in Peers |-> FALSE]
    /\ observing = [p \in Peers |-> FALSE]
    /\ startPc = [p \in Peers |-> "idle"]
    /\ db = [p \in Peers |-> {}]
    /\ dbq = [p \in Peers |-> {}]
    /\ connected = FALSE
    /\ docsMade = 0
    /\ sent = [e \in Entries |-> NotSent]

\* new OfflineSyncQueue after initialize() on an empty AsyncStorage
QueueInit ==
    /\ up = TRUE
    /\ queue = <<>>
    /\ stored = <<>>
    /\ writes = <<>>
    /\ isProcessing = FALSE
    /\ pc = [t \in Tasks |-> "idle"]
    /\ enqLog = <<>>
    /\ enqDone = {}
    /\ applied = {}
    /\ lastApplied = 0
    /\ reports = <<>>
    /\ refused = FALSE
    /\ overlapped = {}
    /\ crashes = 0

\* no queued update has been drained on any peer; no tombstone operation was issued
TypedInit ==
    /\ drained = [p \in Peers |-> {}]
    /\ tombOps = [p \in Peers |-> {}]

\* the local datastore is available; the observer has issued no upsert; no error
\* has reached a caller
MirrorInit ==
    /\ dbUp = TRUE
    /\ issued = <<>>
    /\ landed = <<>>
    /\ failed = {}
    /\ surfaced = FALSE

\* no stopConversationSync call has returned
LifeInit == stopRet = [p \in Peers |-> FALSE]

\* one process, two conversations: the maps of SyncService and the active set are
\* empty, the one DatabaseSyncAdapter has syncing = false, no rows are saved
TopicInit ==
    /\ topicDocs = [t \in Topics |-> NoDoc]
    /\ topicActive = {}
    /\ adapterSyncing = FALSE
    /\ topicObserved = [t \in Topics |-> FALSE]
    /\ topicPc = [t \in Topics |-> "idle"]
    /\ topicRows = [t \in Topics |-> {}]
    /\ topicUpserts = [t \in Topics |-> {}]

\* two devices, each with a Document and a new EncryptionService (sharedKey = null);
\* nothing was sealed, nothing is on the channel, no frame was opened
CryptoInit ==
    /\ secDoc = [p \in Peers |-> NewDoc(IF p = Local THEN 1 ELSE 2)]
    /\ sharedKey = [p \in Peers |-> NoKey]
    /\ inFlight = <<>>
    /\ sealedFrames = {}
    /\ outcome = "none"

\* the module of SyncService has not been loaded in the local process: no
\* instance, no configuration; no Update has left the process
BroadcastInit ==
    /\ config = [made |-> FALSE, enableEncryption |-> FALSE, encryptionKey |-> NoKey]
    /\ sentOut = {}

\* The states map of the awareness as the local process sees it: one state per
\* device, written by that device's PresenceService and propagated as it is
\* written.  A state is the object given to setLocalState, with the fields
\* setLocalStateField added to it; NoField marks a field that was never set.
NoField == -1

NoState ==
    [present |-> FALSE, user |-> [userId |-> "", activeMessageId |-> 0, lastActivity |-> 0],
     activeMessageId |-> NoField, lastActivity |-> NoField]

\* No PresenceService has been constructed: the awareness holds no state and no
\* 'change' handler; no callback was invoked or unsubscribed.  now is Date.now().
PresenceInit ==
    /\ now = 0
    /\ awStates = [p \in Peers |-> NoState]
    /\ handlers = {}
    /\ heard = [c \in Callbacks |-> {}]
    /\ lastInvoked = {}
    /\ unsubscribed = {}
    /\ lastTouched = [p \in Peers |-> 0]

\* DatabaseSyncAdapter.yobservers is empty; cleanupConversationSync was not called
ObserverInit ==
    /\ yobservers = [p \in Peers |-> FALSE]
    /\ cleaned = [p \in Peers |-> FALSE]

\* two devices with an empty Document each; no Update was produced or received
MergeInit ==
    /\ mergeDocs = [p \in Peers |-> NewDoc(IF p = Local THEN 1 ELSE 2)]
    /\ mergeWire = {}
    /\ mergeErr = [p \in Peers |-> "none"]
    /\ refusedAt = {}
    /\ mergedAfterRefusal = {}

\* no WebrtcProvider object has been constructed
SessionInit == liveProviders = [p \in Peers |-> 0]

\* ymeta.get('lastSyncedAt') of a Document that has none: undefined, reported as null
Null == 0

\* no Document is registered, so none has metadata; no start call has been made
StatusInit ==
    /\ lastSyncedAt = [p \in Peers |-> Null]
    /\ started = [p \in Peers |-> FALSE]

\* ConversationSyncService.sendMessage has not been called
SendInit == sendResult = [by |-> "", e |-> 0, err |-> ""]

\* no loop iteration of processQueue has taken an update; no setItem of
\* AsyncStorage has been rejected
DrainInit ==
    /\ held = [id |-> 0, retryCount |-> 0]
    /\ threw = FALSE

Init ==
    /\ CrdtInit /\ SyncInit /\ QueueInit /\ TypedInit /\ MirrorInit /\ LifeInit
    /\ TopicInit /\ CryptoInit /\ BroadcastInit /\ PresenceInit /\ ObserverInit
    /\ MergeInit /\ SessionInit /\ StatusInit /\ SendInit /\ DrainInit

\* ------------------------------------------------------------------ SpecCrdt
ItemsMade == Cardinality(UNION {{u[i] : i \in 1 .. Len(u)} : u \in wire})

\* the Updates a replica has applied: its own and those merged into it
UpdatesOf(r) == {u \in wire : u[1] \in ItemsOf(rep[r])}

CrdtLocal(r, es) ==
    /\ ItemsMade + Len(es) <= MaxItems
    /\ rep' = [rep EXCEPT ![r] = ApplyLocalMutation(rep[r], es)]
    /\ wire' = wire \cup {LocalUpdate(rep[r], es)}
    /\ UNCHANGED again

\* again: some replica has been handed an Update it had applied before
CrdtMerge(r, u) ==
    /\ rep' = [rep EXCEPT ![r] = MergeRemoteUpdate(rep[r], u)]
    /\ again' = (again \/ (u \in UpdatesOf(r) /\ Len(rep[r].seq) >= 2))
    /\ UNCHANGED wire

CrdtNext ==
    \/ \E r \in Replicas, es \in Batches : CrdtLocal(r, es) /\ UNCHANGED <<syncVars, queueVars, auxVars>>
    \/ \E r \in Replicas, u \in wire : CrdtMerge(r, u) /\ UNCHANGED <<syncVars, queueVars, auxVars>>

SpecCrdt == Init /\ [][CrdtNext]_vars

\* ------------------------------------------------------------------ peers
HasDoc(p) == ydocs[p].client # 0

\* messageDatabase.getMessagesByTopicId: the rows in creation order
RECURSIVE ListEntries(_)
ListEntries(rows) ==
    IF rows = {} THEN <<>>
    ELSE LET e == CHOOSE x \in rows : \A y \in rows : x <= y
         IN  <<e>> \o ListEntries(rows \ {e})

EntriesOf(u) == {u[i].e : i \in 1 .. Len(u)}

\* the yarray observer of setupYjsToDatabase: one upsert per added element,
\* issued and not awaited (it is registered only once hydration has pushed)
ObserverUpserts(p, u) == IF observing[p] THEN EntriesOf(u) ELSE {}

\* new Y.Doc() draws a clientID no other Document has (the code draws it at
\* random; the model numbers the Documents in the order they are created)
FreshClient == docsMade + 1

\* startConversationSync up to the await of the datastore read:
\* createSyncDocument (new Y.Doc, new WebrtcProvider, both registered), then
\* initializeConversationSync sets syncing and asks for the rows (no other start of
\* p is in flight here, so its syncing test passes)
StartCreate(p) ==
    /\ startPc[p] = "idle"
    /\ ~activeConversations[p]
    /\ docsMade < MaxDocs
    /\ ydocs' = [ydocs EXCEPT ![p] = NewDoc(FreshClient)]
    /\ docsMade' = docsMade + 1
    /\ providers' = [providers EXCEPT ![p] = TRUE]
    /\ observing' = [observing EXCEPT ![p] = FALSE]
    /\ syncing' = [syncing EXCEPT ![p] = TRUE]
    /\ startPc' = [startPc EXCEPT ![p] = "hydrating"]
    /\ UNCHANGED <<activeConversations, db, dbq, connected, sent>>

\* the rows arrive: one transaction pushes them all, the observer is registered,
\* syncing is cleared and the conversation is marked active
StartHydrate(p) ==
    /\ startPc[p] = "hydrating"
    /\ ydocs' = [ydocs EXCEPT ![p] = ApplyLocalMutation(@, ListEntries(db[p]))]
    /\ observing' = [observing EXCEPT ![p] = TRUE]
    /\ syncing' = [syncing EXCEPT ![p] = FALSE]
    /\ activeConversations' = [activeConversations EXCEPT ![p] = TRUE]
    /\ startPc' = [startPc EXCEPT ![p] = "idle"]
    /\ UNCHANGED <<providers, db, dbq, connected, docsMade, sent>>

\* stopConversationSync: cleanup, destroySyncDocument, remove from the active set
StopSync(p) ==
    /\ activeConversations[p]
    /\ providers' = [providers EXCEPT ![p] = FALSE]
    /\ ydocs' = [ydocs EXCEPT ![p] = NoDoc]
    /\ observing' = [observing EXCEPT ![p] = FALSE]
    /\ activeConversations' = [activeConversations EXCEPT ![p] = FALSE]
    /\ UNCHANGED <<syncing, startPc, db, dbq, connected, docsMade, sent>>

\* getSyncStatus(topicId).isActive
IsActive(p) == HasDoc(p) /\ activeConversations[p]

\* getSyncStatus(topicId) as the two return statements build it ("peerCount: 0,
\* // Would get from awareness"; lastSyncedAt: ymeta.get('lastSyncedAt') || null,
\* where lastSyncedAt[p] is the value in the metadata map of p's registered Document)
GetSyncStatus(p) ==
    IF ~HasDoc(p) THEN [isActive |-> FALSE, peerCount |-> 0, lastSyncedAt |-> Null]
    ELSE [isActive |-> activeConversations[p], peerCount |-> 0,
          lastSyncedAt |-> lastSyncedAt[p]]

\* the peers whose provider is connected with the provider of p
ConnectedPeers(p) == {q \in Peers \ {p} : connected /\ providers[p] /\ providers[q]}

\* useMessageActions.sendMessage of a new message e: saved to the local datastore,
\* then pushed to the Document if sync is active
Send(p, e) ==
    /\ sent[e] = NotSent
    /\ sent' = [sent EXCEPT ![e] = [by |-> p, online |-> connected]]
    /\ db' = [db EXCEPT ![p] = @ \cup {e}]
    /\ IF IsActive(p)
       THEN /\ ydocs' = [ydocs EXCEPT ![p] = ApplyLocalMutation(@, <<e>>)]
            /\ dbq' = [dbq EXCEPT ![p] = @ \cup ObserverUpserts(p, <<[e |-> e]>>)]
       ELSE UNCHANGED <<ydocs, dbq>>
    /\ UNCHANGED <<providers, activeConversations, syncing, observing, startPc,
                   connected, docsMade>>

\* an upsert the observer issued reaches the datastore
DbWrite(p, e) ==
    /\ e \in dbq[p]
    /\ db' = [db EXCEPT ![p] = @ \cup {e}]
    /\ dbq' = [dbq EXCEPT ![p] = @ \ {e}]
    /\ UNCHANGED <<ydocs, providers, activeConversations, syncing, observing, startPc,
                   connected, docsMade, sent>>

\* what q's Document lacks of p's, as one Update
Missing(p, q) == SelectSeq(ydocs[p].seq, LAMBDA it : it \notin ItemsOf(ydocs[q]))

\* the WebrtcProvider of p hands q what q lacks; q's provider merges it
Deliver(p, q) ==
    /\ p # q
    /\ connected
    /\ providers[p] /\ providers[q]
    /\ Missing(p, q) # <<>>
    /\ ydocs' = [ydocs EXCEPT ![q] = MergeRemoteUpdate(@, Missing(p, q))]
    /\ dbq' = [dbq EXCEPT ![q] = @ \cup ObserverUpserts(q, Missing(p, q))]
    /\ UNCHANGED <<providers, activeConversations, syncing, observing, startPc,
                   db, connected, docsMade, sent>>

Connect ==
    /\ ~connected
    /\ connected' = TRUE
    /\ UNCHANGED <<ydocs, providers, activeConversations, syncing, observing, startPc,
                   db, dbq, docsMade, sent>>

Disconnect ==
    /\ connected
    /\ connected' = FALSE
    /\ UNCHANGED <<ydocs, providers, activeConversations, syncing, observing, startPc,
                   db, dbq, docsMade, sent>>

SyncNext ==
    \/ \E p \in Peers : StartCreate(p) /\ UNCHANGED <<crdtVars, queueVars, auxVars>>
    \/ \E p \in Peers : StartHydrate(p) /\ UNCHANGED <<crdtVars, queueVars, auxVars>>
    \/ \E p \in Peers : StopSync(p) /\ UNCHANGED <<crdtVars, queueVars, auxVars>>
    \/ \E p \in Peers, e \in Entries : Send(p, e) /\ UNCHANGED <<crdtVars, queueVars, auxVars>>
    \/ \E p \in Peers, e \in Entries : DbWrite(p, e) /\ UNCHANGED <<crdtVars, queueVars, auxVars>>
    \/ \E p, q \in Peers : Deliver(p, q) /\ UNCHANGED <<crdtVars, queueVars, auxVars>>
    \/ Connect /\ UNCHANGED <<crdtVars, queueVars, auxVars>>
    \/ Disconnect /\ UNCHANGED <<crdtVars, queueVars, auxVars>>

SpecSync == Init /\ [][SyncNext]_vars

\* ------------------------------------------------------------------ OfflineSyncQueue
\* A QueuedUpdate: id numbers the enqueue calls (the code draws a unique string),
\* data is the message of a 'message' update.
QueuedUpdate(id, e) == [id |-> id, type |-> "message", data |-> e, retryCount |-> 0]

QIds(q) == {q[i].id : i \in 1 .. Len(q)}

\* persistQueue: AsyncStorage.setItem(QUEUE_KEY, JSON.stringify(this.queue)); the
\* text is taken at the call, the write is carried out later, writes in call order.
\* enq / task name the caller that awaits the write.
PersistQueue(ws, q, enq, task) == Append(ws, [val |-> q, enq |-> enq, task |-> task])

\* (mutation) an enqueue that resolves without persisting
EnqueueUnsaved(e) ==
    /\ up
    /\ e = Len(enqLog) + 1
    /\ queue' = Append(queue, QueuedUpdate(Len(enqLog) + 1, e))
    /\ enqLog' = Append(enqLog, e)
    /\ enqDone' = enqDone \cup {Len(enqLog) + 1}
    /\ UNCHANGED <<up, stored, writes, isProcessing, pc, applied, lastApplied, reports, refused,
                   overlapped, crashes>>

\* enqueue(update) up to the await of persistQueue.  overlapped: the enqueues made
\* while a drain was awaiting the write of its shortened log
Enqueue(e) ==
    /\ up
    /\ e = Len(enqLog) + 1
    /\ queue' = Append(queue, QueuedUpdate(Len(enqLog) + 1, e))
    /\ writes' = PersistQueue(writes, queue', Len(enqLog) + 1, 0)
    /\ enqLog' = Append(enqLog, e)
    /\ overlapped' = IF \E t \in Tasks : pc[t] = "persisting"
                     THEN overlapped \cup {Len(enqLog) + 1} ELSE overlapped
    /\ UNCHANGED <<up, stored, isProcessing, pc, enqDone, applied, lastApplied, reports, refused, crashes>>

\* AsyncStorage carries out the oldest outstanding setItem; an enqueue that
\* awaited it has then completed
WriteLand ==
    /\ writes # <<>>
    /\ stored' = Head(writes).val
    /\ writes' = Tail(writes)
    /\ enqDone' = IF Head(writes).enq # 0 THEN enqDone \cup {Head(writes).enq} ELSE enqDone
    /\ UNCHANGED <<up, queue, isProcessing, pc, enqLog, applied, lastApplied, reports, refused,
                   overlapped, crashes>>

\* (mutation) processQueue without the isProcessing test
ProcessQueueUnguarded(t) ==
    /\ up
    /\ pc[t] = "idle"
    /\ IF queue = <<>>
       THEN UNCHANGED <<isProcessing, pc, refused>>
       ELSE /\ isProcessing' = TRUE
            /\ pc' = [pc EXCEPT ![t] = "loop"]
            /\ UNCHANGED refused
    /\ UNCHANGED <<up, queue, stored, writes, enqLog, enqDone, applied, lastApplied, reports,
                   overlapped, crashes>>

\* processQueue(): returns at once while a drain runs or the queue is empty,
\* otherwise takes the flag and enters the loop
ProcessQueue(t) ==
    /\ up
    /\ pc[t] = "idle"
    /\ IF isProcessing \/ queue = <<>>
       THEN /\ refused' = (refused \/ (isProcessing /\ queue # <<>>))
            /\ UNCHANGED <<isProcessing, pc>>
       ELSE /\ isProcessing' = TRUE
            /\ pc' = [pc EXCEPT ![t] = "loop"]
            /\ UNCHANGED refused
    /\ UNCHANGED <<up, queue, stored, writes, enqLog, enqDone, applied, lastApplied, reports,
                   overlapped, crashes>>

\* (mutation) giving up one failure early
DiscardsEarly(retryCount) == retryCount >= RetryCeiling - 1

\* if (update.retryCount >= 3), read after the increment
Discards(retryCount) == retryCount >= RetryCeiling

\* (mutation) the drain working on the newest update
LastOf(q) == q[Len(q)]

\* the update one loop iteration works on
QueueHead(q) == q[1]

\* the queue without the update the iteration worked on
Shift(q) == Tail(q)

\* (mutation) a return that leaves the flag as it is
FinishKeepsFlag(t) ==
    /\ isProcessing' = isProcessing
    /\ pc' = [pc EXCEPT ![t] = "idle"]

\* finally { isProcessing = false }
Finish(t) ==
    /\ isProcessing' = FALSE
    /\ pc' = [pc EXCEPT ![t] = "idle"]

\* One iteration of the while loop.  applyUpdate throws when the conversation has
\* no Document; otherwise it pushes update.data in a transaction (the observer, if
\* registered, issues the upsert).  Success: shift, persistQueue, await the write.
\* Failure: retryCount++, then discard and go on at retryCount >= 3, else break.
DrainStep(t) ==
    /\ up
    /\ pc[t] = "loop"
    /\ queue # <<>>
    /\ LET update == QueueHead(queue)
       IN  IF HasDoc(Local)
           THEN /\ ydocs' = [ydocs EXCEPT ![Local] = ApplyLocalMutation(@, <<update.data>>)]
                /\ dbq' = [dbq EXCEPT ![Local] =
                              @ \cup ObserverUpserts(Local, <<[e |-> update.data]>>)]
                /\ queue' = Shift(queue)
                /\ writes' = PersistQueue(writes, queue', 0, t)
                /\ pc' = [pc EXCEPT ![t] = "persisting"]
                /\ lastApplied' = update.id
                /\ applied' = applied \cup {update.id}
                /\ UNCHANGED <<isProcessing, reports>>
           ELSE /\ IF Discards(update.retryCount + 1)
                   THEN /\ queue' = Shift(queue)
                        /\ reports' = Append(reports, update.id)
                        /\ IF queue' = <<>> THEN Finish(t)
                           ELSE UNCHANGED <<isProcessing, pc>>
                   ELSE /\ queue' = [queue EXCEPT ![1].retryCount = @ + 1]
                        /\ Finish(t)
                        /\ UNCHANGED reports
                /\ UNCHANGED <<ydocs, dbq, writes, applied, lastApplied>>
    /\ UNCHANGED <<up, stored, enqLog, enqDone, refused, overlapped, crashes>>
    /\ UNCHANGED <<providers, activeConversations, syncing, observing, startPc,
                   db, connected, docsMade, sent>>

\* the drain's persistQueue has been carried out: next iteration, or the loop ends
DrainPersisted(t) ==
    /\ up
    /\ pc[t] = "persisting"
    /\ \A i \in 1 .. Len(writes) : writes[i].task # t
    /\ IF queue = <<>> THEN Finish(t)
       ELSE /\ pc' = [pc EXCEPT ![t] = "loop"]
            /\ UNCHANGED isProcessing
    /\ UNCHANGED <<up, queue, stored, writes, enqLog, enqDone, applied, lastApplied, reports, refused,
                   overlapped, crashes>>

\* The process is killed: everything in memory is gone (queue, flags, Document,
\* provider, observer) and so is every write not yet carried out; the datastore
\* rows and the durable log stay.
Crash ==
    /\ up
    /\ crashes < MaxCrashes
    /\ up' = FALSE
    /\ crashes' = crashes + 1
    /\ queue' = <<>>
    /\ writes' = <<>>
    /\ isProcessing' = FALSE
    /\ pc' = [t \in Tasks |-> "idle"]
    /\ lastApplied' = 0
    /\ ydocs' = [ydocs EXCEPT ![Local] = NoDoc]
    /\ providers' = [providers EXCEPT ![Local] = FALSE]
    /\ activeConversations' = [activeConversations EXCEPT ![Local] = FALSE]
    /\ syncing' = [syncing EXCEPT ![Local] = FALSE]
    /\ observing' = [observing EXCEPT ![Local] = FALSE]
    /\ startPc' = [startPc EXCEPT ![Local] = "idle"]
    /\ dbq' = [dbq EXCEPT ![Local] = {}]
    /\ UNCHANGED <<stored, enqLog, enqDone, applied, reports, refused, overlapped>>
    /\ UNCHANGED <<db, connected, docsMade, sent>>

\* the restarted process runs initialize(): the queue is the persisted log
Initialize ==
    /\ ~up
    /\ up' = TRUE
    /\ queue' = stored
    /\ UNCHANGED <<stored, writes, isProcessing, pc, enqLog, enqDone, applied, lastApplied,
                   reports, refused, overlapped, crashes>>

Next ==
    \/ \E e \in Entries : Enqueue(e) /\ UNCHANGED <<crdtVars, syncVars, auxVars>>
    \/ WriteLand /\ UNCHANGED <<crdtVars, syncVars, auxVars>>
    \/ \E t \in Tasks : ProcessQueue(t) /\ UNCHANGED <<crdtVars, syncVars, auxVars>>
    \/ \E t \in Tasks : DrainStep(t) /\ UNCHANGED <<crdtVars, auxVars>>
    \/ \E t \in Tasks : DrainPersisted(t) /\ UNCHANGED <<crdtVars, syncVars, auxVars>>
    \/ Crash /\ UNCHANGED <<crdtVars, auxVars>>
    \/ Initialize /\ UNCHANGED <<crdtVars, syncVars, auxVars>>
    \/ up /\ StartCreate(Local) /\ UNCHANGED <<crdtVars, queueVars, auxVars>>
    \/ up /\ StartHydrate(Local) /\ UNCHANGED <<crdtVars, queueVars, auxVars>>
    \/ \E e \in Entries : up /\ DbWrite(Local, e) /\ UNCHANGED <<crdtVars, queueVars, auxVars>>

Spec == Init /\ [][Next]_vars

\* ------------------------------------------------------------------ queue and connection
\* One process with its OfflineSyncQueue, its conversation sync, the application
\* sending messages, and the provider's connection coming and going.  enqueue and
\* processQueue are called by the application only: no handler of the sync
\* services calls them.
OfflineNext ==
    \/ \E e \in Entries : Enqueue(e) /\ UNCHANGED <<crdtVars, syncVars, auxVars>>
    \/ WriteLand /\ UNCHANGED <<crdtVars, syncVars, auxVars>>
    \/ \E t \in Tasks : ProcessQueue(t) /\ UNCHANGED <<crdtVars, syncVars, auxVars>>
    \/ \E t \in Tasks : DrainStep(t) /\ UNCHANGED <<crdtVars, auxVars>>
    \/ \E t \in Tasks : DrainPersisted(t) /\ UNCHANGED <<crdtVars, syncVars, auxVars>>
    \/ StartCreate(Local) /\ UNCHANGED <<crdtVars, queueVars, auxVars>>
    \/ StartHydrate(Local) /\ UNCHANGED <<crdtVars, queueVars, auxVars>>
    \/ \E e \in Entries : Send(Local, e) /\ UNCHANGED <<crdtVars, queueVars, auxVars>>
    \/ \E e \in Entries : DbWrite(Local, e) /\ UNCHANGED <<crdtVars, queueVars, auxVars>>
    \/ Connect /\ UNCHANGED <<crdtVars, queueVars, auxVars>>
    \/ Disconnect /\ UNCHANGED <<crdtVars, queueVars, auxVars>>

SpecOffline == Init /\ [][OfflineNext]_vars

\* ------------------------------------------------------------------ edit and delete updates
\* (timestamp, peerId) order of two edits
StampLeq(a, b) == a[1] < b[1] \/ (a[1] = b[1] /\ a[2] <= b[2])

\* the visible payload of Entry e: the text of its edit with the highest
\* (timestamp, peerId); 0 stands for the payload the Entry was created with
TextOf(doc, e) ==
    LET es == {x \in doc.edits : x.e = e}
    IN  IF es = {} THEN 0
        ELSE (CHOOSE x \in es : \A y \in es : StampLeq(y.stamp, x.stamp)).text

\* Entry e is part of the Document's causal state
InCausalState(doc, e) == \E it \in ItemsOf(doc) : it.e = e

\* Entry e carries the tombstone flag
Tombstoned(doc, e) == \E i \in 1 .. Len(doc.seq) : doc.seq[i].e = e /\ doc.seq[i].id \in doc.del

\* the transaction of applyUpdate: 'message' pushes update.data; the 'edit' and
\* 'delete' branches hold a comment and no statement
ApplyUpdate(doc, type, data) ==
    IF type = "message" THEN ApplyLocalMutation(doc, <<data>>)
    ELSE IF type = "edit" THEN doc
    ELSE doc

\* the edit and delete updates an application may queue for Entry e
EditTexts == {1, 2}

TypedUpdates ==
    {[type |-> "edit", e |-> e, text |-> v] : e \in Entries, v \in EditTexts}
        \cup {[type |-> "delete", e |-> e, text |-> 0] : e \in Entries}

\* Peer p's processQueue reaches a queued edit or delete of an Entry its Document
\* shows: applyUpdate finds the Document, runs its transaction and returns, and the
\* update is removed as applied.  The transaction adds nothing to the array, so the
\* observer is not called.
DrainApply(p, u) ==
    /\ HasDoc(p)
    /\ Cardinality(drained[p]) < MaxOps
    /\ \E i \in 1 .. Len(Visible(ydocs[p])) : Visible(ydocs[p])[i] = u.e
    /\ ydocs' = [ydocs EXCEPT ![p] = ApplyUpdate(@, u.type, u)]
    /\ drained' = [drained EXCEPT ![p] = @ \cup {u}]
    /\ UNCHANGED <<providers, activeConversations, syncing, observing, startPc,
                   db, dbq, connected, docsMade, sent, tombOps>>

TypedNext ==
    \/ \E p \in Peers : StartCreate(p) /\ UNCHANGED <<crdtVars, queueVars, auxVars>>
    \/ \E p \in Peers : StartHydrate(p) /\ UNCHANGED <<crdtVars, queueVars, auxVars>>
    \/ \E p \in Peers, e \in Entries : Send(p, e) /\ UNCHANGED <<crdtVars, queueVars, auxVars>>
    \/ \E p, q \in Peers : Deliver(p, q) /\ UNCHANGED <<crdtVars, queueVars, auxVars>>
    \/ Connect /\ UNCHANGED <<crdtVars, queueVars, auxVars>>
    \/ \E p \in Peers, u \in TypedUpdates : DrainApply(p, u) /\ UNCHANGED <<crdtVars, queueVars, mirrorVars, lifeVars, topicVars, cryptoVars, broadcastVars, presenceVars, observerVars, mergeVars, sessionVars, statusVars, sendVars, drainVars>>

SpecTyped == Init /\ [][TypedNext]_vars

\* ------------------------------------------------------------------ Document to datastore
\* The upserts the observer of the local peer issues, numbered in the order of the
\* calls (issued[n] is the Entry of the n-th); the call is not awaited, so every
\* upsert not yet settled is outstanding at the datastore at once.
Outstanding == {n \in 1 .. Len(issued) : n \notin failed /\ \A i \in 1 .. Len(landed) : landed[i] # n}

\* the Entries with an outstanding upsert, once upsert n has settled
StillQueued(n) == {issued[m] : m \in Outstanding \ {n}}

\* the provider of the local peer merges what B's Document has and the local one
\* lacks; the observer, if registered, calls upsertMessages once per added element,
\* in the order of event.changes.added
MirrorDeliver ==
    /\ Deliver("B", Local)
    /\ issued' = IF observing[Local]
                 THEN issued \o [i \in 1 .. Len(Missing("B", Local)) |-> Missing("B", Local)[i].e]
                 ELSE issued
    /\ UNCHANGED <<dbUp, landed, failed, surfaced>>

\* (mutation) a rejected upsert undoes the Document change and throws
UpsertFailsRollback(n) ==
    /\ n \in Outstanding
    /\ ~dbUp
    /\ failed' = failed \cup {n}
    /\ dbq' = [dbq EXCEPT ![Local] = StillQueued(n)]
    /\ ydocs' = [ydocs EXCEPT ![Local].seq = SelectSeq(@, LAMBDA it : it.e # issued[n])]
    /\ surfaced' = TRUE
    /\ UNCHANGED <<dbUp, issued, landed>>
    /\ UNCHANGED <<providers, activeConversations, syncing, observing, startPc,
                   db, connected, docsMade, sent>>

\* upsertMessages(n) is rejected by an unavailable datastore:
\* .catch(err => logger.error(...)) and nothing else
UpsertFails(n) ==
    /\ n \in Outstanding
    /\ ~dbUp
    /\ failed' = failed \cup {n}
    /\ dbq' = [dbq EXCEPT ![Local] = StillQueued(n)]
    /\ UNCHANGED <<dbUp, issued, landed, surfaced>>
    /\ UNCHANGED <<ydocs, providers, activeConversations, syncing, observing, startPc,
                   db, connected, docsMade, sent>>

\* upsertMessages(n) takes effect; the datastore settles the outstanding calls in
\* an order of its own
UpsertLands(n) ==
    /\ n \in Outstanding
    /\ dbUp
    /\ db' = [db EXCEPT ![Local] = @ \cup {issued[n]}]
    /\ landed' = Append(landed, n)
    /\ dbq' = [dbq EXCEPT ![Local] = StillQueued(n)]
    /\ UNCHANGED <<dbUp, issued, failed, surfaced>>
    /\ UNCHANGED <<ydocs, providers, activeConversations, syncing, observing, startPc,
                   connected, docsMade, sent>>

DatastoreDown ==
    /\ dbUp
    /\ dbUp' = FALSE
    /\ UNCHANGED <<issued, landed, failed, surfaced>>

DatastoreUp ==
    /\ ~dbUp
    /\ dbUp' = TRUE
    /\ UNCHANGED <<issued, landed, failed, surfaced>>

\* B creates the messages; the local peer receives them and mirrors them
MirrorNext ==
    \/ \E p \in Peers : StartCreate(p) /\ UNCHANGED <<crdtVars, queueVars, auxVars>>
    \/ \E p \in Peers : StartHydrate(p) /\ UNCHANGED <<crdtVars, queueVars, auxVars>>
    \/ \E e \in Entries : Send("B", e) /\ UNCHANGED <<crdtVars, queueVars, auxVars>>
    \/ Connect /\ UNCHANGED <<crdtVars, queueVars, auxVars>>
    \/ MirrorDeliver /\ UNCHANGED <<crdtVars, queueVars, typedVars, lifeVars, topicVars, cryptoVars, broadcastVars, presenceVars, observerVars, mergeVars, sessionVars, statusVars, sendVars, drainVars>>
    \/ \E n \in 1 .. MaxMsgs : UpsertLands(n) /\ UNCHANGED <<crdtVars, queueVars, typedVars, lifeVars, topicVars, cryptoVars, broadcastVars, presenceVars, observerVars, mergeVars, sessionVars, statusVars, sendVars, drainVars>>
    \/ \E n \in 1 .. MaxMsgs : UpsertFails(n) /\ UNCHANGED <<crdtVars, queueVars, typedVars, lifeVars, topicVars, cryptoVars, broadcastVars, presenceVars, observerVars, mergeVars, sessionVars, statusVars, sendVars, drainVars>>
    \/ DatastoreDown /\ UNCHANGED <<crdtVars, syncVars, queueVars, typedVars, lifeVars, topicVars, cryptoVars, broadcastVars, presenceVars, observerVars, mergeVars, sessionVars, statusVars, sendVars, drainVars>>
    \/ DatastoreUp /\ UNCHANGED <<crdtVars, syncVars, queueVars, typedVars, lifeVars, topicVars, cryptoVars, broadcastVars, presenceVars, observerVars, mergeVars, sessionVars, statusVars, sendVars, drainVars>>

SpecMirror == Init /\ [][MirrorNext]_vars

\* ------------------------------------------------------------------ start, stop, open
\* a startConversationSync call is made (StartCreate); what an earlier stop call
\* left behind is no longer that call's result
StartCall(p) ==
    /\ StartCreate(p)
    /\ stopRet' = [stopRet EXCEPT ![p] = FALSE]

\* a stopConversationSync call from entry to return: it returns at once unless the
\* conversation is in the active set
StopCall(p) ==
    /\ IF activeConversations[p] THEN StopSync(p) ELSE UNCHANGED syncVars
    /\ stopRet' = [stopRet EXCEPT ![p] = TRUE]

\* createSyncDocument called for a resource that has a registered Document: a new
\* Y.Doc and a new WebrtcProvider are made and put in the maps under the same room
\* name (a caller is a second startConversationSync made while the first awaits:
\* the active-set test of line 805 passes until line 818).  The observer stays on
\* the array of the Document that was replaced, and a start in flight goes on with
\* that Document; the replaced Document and its provider are not followed further.
CreateSyncDocumentAgain(p) ==
    /\ HasDoc(p)
    /\ docsMade < MaxDocs
    /\ ydocs' = [ydocs EXCEPT ![p] = NewDoc(FreshClient)]
    /\ docsMade' = docsMade + 1
    /\ providers' = [providers EXCEPT ![p] = TRUE]
    /\ observing' = [observing EXCEPT ![p] = FALSE]
    /\ startPc' = [startPc EXCEPT ![p] = IF @ = "hydrating" THEN "replaced" ELSE @]
    /\ UNCHANGED <<activeConversations, syncing, db, dbq, connected, sent>>

\* the rows arrive for a start whose Document was replaced meanwhile: they are
\* pushed into the replaced Document and the observer is registered on its array;
\* syncing is cleared and the conversation is marked active
StartHydrateReplaced(p) ==
    /\ startPc[p] = "replaced"
    /\ syncing' = [syncing EXCEPT ![p] = FALSE]
    /\ activeConversations' = [activeConversations EXCEPT ![p] = TRUE]
    /\ startPc' = [startPc EXCEPT ![p] = "idle"]
    /\ UNCHANGED <<ydocs, providers, observing, db, dbq, connected, docsMade, sent>>

LifeNext ==
    \/ \E p \in Peers : StartCall(p) /\ UNCHANGED <<crdtVars, queueVars, typedVars, mirrorVars, topicVars, cryptoVars, broadcastVars, presenceVars, observerVars, mergeVars, sessionVars, statusVars, sendVars, drainVars>>
    \/ \E p \in Peers : StartHydrate(p) /\ UNCHANGED <<crdtVars, queueVars, auxVars>>
    \/ \E p \in Peers : StopCall(p) /\ UNCHANGED <<crdtVars, queueVars, typedVars, mirrorVars, topicVars, cryptoVars, broadcastVars, presenceVars, observerVars, mergeVars, sessionVars, statusVars, sendVars, drainVars>>
    \/ \E p \in Peers : CreateSyncDocumentAgain(p) /\ UNCHANGED <<crdtVars, queueVars, auxVars>>
    \/ \E p \in Peers : StartHydrateReplaced(p) /\ UNCHANGED <<crdtVars, queueVars, auxVars>>
    \/ \E p \in Peers, e \in Entries : Send(p, e) /\ UNCHANGED <<crdtVars, queueVars, auxVars>>
    \/ \E p, q \in Peers : Deliver(p, q) /\ UNCHANGED <<crdtVars, queueVars, auxVars>>
    \/ Connect /\ UNCHANGED <<crdtVars, queueVars, auxVars>>

SpecLife == Init /\ [][LifeNext]_vars

\* ------------------------------------------------------------------ two conversations, one process
\* One ConversationSyncService, one SyncService and one DatabaseSyncAdapter serve
\* both conversations: the maps are keyed by topicId, the adapter's syncing field
\* is a single boolean.
\* new Y.Doc(): the clientID of the Document made for t (one Document of t exists
\* at a time, and the two conversations never exchange items)
TopicClient(t) == IF t = "t1" THEN 1 ELSE 2

TopicHasDoc(t) == topicDocs[t].client # 0

\* getSyncStatus(t).isActive
TopicIsActive(t) == TopicHasDoc(t) /\ t \in topicActive

\* the observer of t's array, if registered: one upsert per added element
TopicObserverUpserts(t, es) == IF topicObserved[t] THEN es ELSE {}

\* startConversationSync(t) up to its first real wait: createSyncDocument, then
\* initializeConversationSync, which returns at once if the adapter's syncing is
\* set (the start then adds t to the active set and returns), and otherwise sets
\* syncing and awaits the rows
TopicStart(t) ==
    /\ topicPc[t] = "idle"
    /\ t \notin topicActive
    /\ topicDocs' = [topicDocs EXCEPT ![t] = NewDoc(TopicClient(t))]
    /\ topicObserved' = [topicObserved EXCEPT ![t] = FALSE]
    /\ IF adapterSyncing
       THEN /\ topicActive' = topicActive \cup {t}
            /\ UNCHANGED <<adapterSyncing, topicPc>>
       ELSE /\ adapterSyncing' = TRUE
            /\ topicPc' = [topicPc EXCEPT ![t] = "reading"]
            /\ UNCHANGED topicActive
    /\ UNCHANGED <<topicRows, topicUpserts>>

\* the rows of t arrive: pushed in one transaction, observer registered, syncing
\* cleared in the finally block, t added to the active set
TopicHydrate(t) ==
    /\ topicPc[t] = "reading"
    /\ topicDocs' = [topicDocs EXCEPT ![t] = ApplyLocalMutation(@, ListEntries(topicRows[t]))]
    /\ topicObserved' = [topicObserved EXCEPT ![t] = TRUE]
    /\ adapterSyncing' = FALSE
    /\ topicActive' = topicActive \cup {t}
    /\ topicPc' = [topicPc EXCEPT ![t] = "idle"]
    /\ UNCHANGED <<topicRows, topicUpserts>>

\* stopConversationSync(t) of an active conversation (it returns at once otherwise)
TopicStop(t) ==
    /\ t \in topicActive
    /\ topicDocs' = [topicDocs EXCEPT ![t] = NoDoc]
    /\ topicObserved' = [topicObserved EXCEPT ![t] = FALSE]
    /\ topicActive' = topicActive \ {t}
    /\ UNCHANGED <<adapterSyncing, topicPc, topicRows, topicUpserts>>

\* useMessageActions.sendMessage of a new message e in conversation t: the row is
\* saved, then the message is pushed to the Document if sync is active
TopicSend(t, e) ==
    /\ \A u \in Topics : e \notin topicRows[u] \cup topicUpserts[u]
    /\ topicRows' = [topicRows EXCEPT ![t] = @ \cup {e}]
    /\ IF TopicIsActive(t)
       THEN /\ topicDocs' = [topicDocs EXCEPT ![t] = ApplyLocalMutation(@, <<e>>)]
            /\ topicUpserts' = [topicUpserts EXCEPT ![t] = @ \cup TopicObserverUpserts(t, {e})]
       ELSE UNCHANGED <<topicDocs, topicUpserts>>
    /\ UNCHANGED <<topicActive, adapterSyncing, topicObserved, topicPc>>

\* an upsert the observer of t issued reaches the datastore
TopicDbWrite(t, e) ==
    /\ e \in topicUpserts[t]
    /\ topicRows' = [topicRows EXCEPT ![t] = @ \cup {e}]
    /\ topicUpserts' = [topicUpserts EXCEPT ![t] = @ \ {e}]
    /\ UNCHANGED <<topicDocs, topicActive, adapterSyncing, topicObserved, topicPc>>

otherAuxVars == <<typedVars, mirrorVars, lifeVars, cryptoVars, broadcastVars, presenceVars,
        observerVars, mergeVars, sessionVars, statusVars, sendVars, drainVars>>

TopicsNext ==
    \/ \E t \in Topics : TopicStart(t) /\ UNCHANGED <<crdtVars, syncVars, queueVars, otherAuxVars>>
    \/ \E t \in Topics : TopicHydrate(t) /\ UNCHANGED <<crdtVars, syncVars, queueVars, otherAuxVars>>
    \/ \E t \in Topics : TopicStop(t) /\ UNCHANGED <<crdtVars, syncVars, queueVars, otherAuxVars>>
    \/ \E t \in Topics, e \in Entries :
          TopicSend(t, e) /\ UNCHANGED <<crdtVars, syncVars, queueVars, otherAuxVars>>
    \/ \E t \in Topics, e \in Entries :
          TopicDbWrite(t, e) /\ UNCHANGED <<crdtVars, syncVars, queueVars, otherAuxVars>>

SpecTopics == Init /\ [][TopicsNext]_vars

\* ------------------------------------------------------------------ the queue over two conversations
\* enqueue's update carries the topicId of its conversation
QueuedUpdateFor(t, id, e) == [topicId |-> t] @@ QueuedUpdate(id, e)

\* enqueue({type: 'message', topicId: t, data: e}) up to the await of persistQueue
EnqueueFor(t, e) ==
    /\ e = Len(enqLog) + 1
    /\ e \in Entries
    /\ queue' = Append(queue, QueuedUpdateFor(t, Len(enqLog) + 1, e))
    /\ writes' = PersistQueue(writes, queue', Len(enqLog) + 1, 0)
    /\ enqLog' = Append(enqLog, e)
    /\ overlapped' = IF \E k \in Tasks : pc[k] = "persisting"
                     THEN overlapped \cup {Len(enqLog) + 1} ELSE overlapped
    /\ UNCHANGED <<up, stored, isProcessing, pc, enqDone, applied, lastApplied, reports, refused, crashes>>

\* One iteration of the while loop of processQueue.  applyUpdate looks up the
\* Document of update.topicId and throws if there is none; otherwise it pushes
\* update.data in a transaction (the observer of that Document, if registered,
\* issues the upsert).  Success: shift, persistQueue, await the write.  Failure:
\* retryCount++, then discard and go on at retryCount >= 3, else break.
DrainStepFor(k) ==
    /\ pc[k] = "loop"
    /\ queue # <<>>
    /\ LET update == QueueHead(queue)
           t == update.topicId
       IN  IF TopicHasDoc(t)
           THEN /\ topicDocs' = [topicDocs EXCEPT ![t] = ApplyLocalMutation(@, <<update.data>>)]
                /\ topicUpserts' = [topicUpserts EXCEPT ![t] =
                                       @ \cup TopicObserverUpserts(t, {update.data})]
                /\ queue' = Shift(queue)
                /\ writes' = PersistQueue(writes, queue', 0, k)
                /\ pc' = [pc EXCEPT ![k] = "persisting"]
                /\ lastApplied' = update.id
                /\ applied' = applied \cup {update.id}
                /\ UNCHANGED <<isProcessing, reports>>
           ELSE /\ IF Discards(update.retryCount + 1)
                   THEN /\ queue' = Shift(queue)
                        /\ reports' = Append(reports, update.id)
                        /\ IF queue' = <<>> THEN Finish(k)
                           ELSE UNCHANGED <<isProcessing, pc>>
                   ELSE /\ queue' = [queue EXCEPT ![1].retryCount = @ + 1]
                        /\ Finish(k)
                        /\ UNCHANGED reports
                /\ UNCHANGED <<topicDocs, topicUpserts, writes, applied, lastApplied>>
    /\ UNCHANGED <<up, stored, enqLog, enqDone, refused, overlapped, crashes>>
    /\ UNCHANGED <<topicActive, adapterSyncing, topicObserved, topicPc, topicRows>>

TopicQueueNext ==
    \/ \E t \in Topics, e \in Entries :
          EnqueueFor(t, e) /\ UNCHANGED <<crdtVars, syncVars, auxVars>>
    \/ WriteLand /\ UNCHANGED <<crdtVars, syncVars, auxVars>>
    \/ \E k \in Tasks : ProcessQueue(k) /\ UNCHANGED <<crdtVars, syncVars, auxVars>>
    \/ \E k \in Tasks : DrainStepFor(k) /\ UNCHANGED <<crdtVars, syncVars, otherAuxVars>>
    \/ \E k \in Tasks : DrainPersisted(k) /\ UNCHANGED <<crdtVars, syncVars, auxVars>>
    \/ \E t \in Topics : TopicStart(t) /\ UNCHANGED <<crdtVars, syncVars, queueVars, otherAuxVars>>
    \/ \E t \in Topics : TopicHydrate(t) /\ UNCHANGED <<crdtVars, syncVars, queueVars, otherAuxVars>>
    \/ \E t \in Topics, e \in Entries :
          TopicDbWrite(t, e) /\ UNCHANGED <<crdtVars, syncVars, queueVars, otherAuxVars>>

SpecTopicQueue == Init /\ [][TopicQueueNext]_vars

\* ------------------------------------------------------------------ EncryptionService
\* nacl.box.after / nacl.box.open.after as authenticated encryption: the stream
\* cipher masks the data under (key, nonce), the authenticator binds key, nonce and
\* masked data.  Junk stands for bytes that are no output of either.
Junk == [junk |-> TRUE]

Mask(k, n, data) == [k |-> k, n |-> n, data |-> data]

Tag(k, n, c) == [k |-> k, n |-> n, c |-> c]

\* nacl.box.after(data, nonce, sharedKey): authenticator, then the masked data
BoxAfter(data, n, k) == <<Tag(k, n, Mask(k, n, data)), Mask(k, n, data)>>

\* nacl.box.open.after(ciphertext, nonce, sharedKey): the data if the authenticator
\* matches, null otherwise
BoxOpenAfter(ct, n, k) ==
    IF Len(ct) = 2 /\ ct[1] = Tag(k, n, ct[2])
    THEN [ok |-> TRUE, data |-> ct[2].data]
    ELSE [ok |-> FALSE, data |-> <<>>]

\* the places of a frame that hold the nonce (nacl.box.nonceLength bytes in the
\* code, one place in the model)
NonceLength == 1

\* encrypt(data) with the nonce randomBytes returned: nonce, then the box
Encrypt(key, n, data) == <<n>> \o BoxAfter(data, n, key)

\* (mutation) decrypt without the test of the opened value
DecryptUnchecked(key, frame) ==
    IF key = NoKey
    THEN [ok |-> FALSE, err |-> "Shared key not established", data |-> <<>>]
    ELSE LET nonce == SubSeq(frame, 1, NonceLength)
             ciphertext == SubSeq(frame, NonceLength + 1, Len(frame))
             decrypted == BoxOpenAfter(ciphertext, nonce[1], key)
         IN  [ok |-> TRUE, err |-> "", data |-> decrypted.data]

\* decrypt(encrypted): throws without a shared key; slices nonce and ciphertext,
\* opens, throws 'Decryption failed' on null
Decrypt(key, frame) ==
    IF key = NoKey
    THEN [ok |-> FALSE, err |-> "Shared key not established", data |-> <<>>]
    ELSE LET nonce == SubSeq(frame, 1, NonceLength)
             ciphertext == SubSeq(frame, NonceLength + 1, Len(frame))
             decrypted == BoxOpenAfter(ciphertext, nonce[1], key)
         IN  IF ~decrypted.ok
             THEN [ok |-> FALSE, err |-> "Decryption failed", data |-> <<>>]
             ELSE [ok |-> TRUE, err |-> "", data |-> decrypted.data]

\* setSharedKey(peerPublicKey) after the key exchange of device p
SetSharedKey(p, k) ==
    /\ sharedKey[p] = NoKey
    /\ sharedKey' = [sharedKey EXCEPT ![p] = k]
    /\ UNCHANGED <<secDoc, inFlight, sealedFrames, outcome>>

\* The local device pushes message e; the 'update' handler encrypts the Update
\* and sends it.  Without a shared key encrypt throws and nothing is sent.
SealUpdate(e, n) ==
    /\ inFlight = <<>>
    /\ e = Len(secDoc[Local].seq) + 1
    /\ secDoc' = [secDoc EXCEPT ![Local] = ApplyLocalMutation(@, <<e>>)]
    /\ IF sharedKey[Local] = NoKey
       THEN UNCHANGED <<inFlight, sealedFrames>>
       ELSE LET frame == Encrypt(sharedKey[Local], n, LocalUpdate(secDoc[Local], <<e>>))
            IN  /\ inFlight' = frame
                /\ sealedFrames' = sealedFrames \cup {[frame |-> frame, key |-> sharedKey[Local]]}
    /\ UNCHANGED <<sharedKey, outcome>>

\* the same Update with the Entry of each item changed: what flipping bits of the
\* masked data turns the data into
Flipped(u) == [i \in 1 .. Len(u) |-> [u[i] EXCEPT !.e = (u[i].e % MaxMsgs) + 1]]

\* what the channel may put in place i of the frame: another nonce; the place of
\* any sealed frame; junk; masked data with bits flipped
Replacements(i) ==
    LET old == {s.frame[i] : s \in sealedFrames}
    IN  IF i <= NonceLength THEN Nonces
        ELSE old \cup {Junk}
                 \cup {Mask(c.k, c.n, Flipped(c.data)) : c \in {s.frame[NonceLength + 2] : s \in sealedFrames}}

\* the frame in flight is altered in one place
Tamper(i, x) ==
    /\ inFlight # <<>>
    /\ i \in 1 .. Len(inFlight)
    /\ x \in Replacements(i)
    /\ x # inFlight[i]
    /\ inFlight' = [inFlight EXCEPT ![i] = x]
    /\ UNCHANGED <<secDoc, sharedKey, sealedFrames, outcome>>

\* The remote device receives the frame: decrypt, then Y.applyUpdate of the
\* plaintext; a throw of decrypt ends the handler before applyUpdate.
OpenFrame ==
    /\ inFlight # <<>>
    /\ LET r == Decrypt(sharedKey["B"], inFlight)
       IN  /\ outcome' = IF r.ok THEN "ok" ELSE r.err
           /\ secDoc' = IF r.ok THEN [secDoc EXCEPT !["B"] = MergeRemoteUpdate(@, r.data)]
                        ELSE secDoc
    /\ inFlight' = <<>>
    /\ UNCHANGED <<sharedKey, sealedFrames>>

nonCryptoAuxVars == <<typedVars, mirrorVars, lifeVars, topicVars, broadcastVars, presenceVars,
        observerVars, mergeVars, sessionVars, statusVars, sendVars, drainVars>>

CryptoNext ==
    \/ \E p \in Peers, k \in Keys :
          SetSharedKey(p, k) /\ UNCHANGED <<crdtVars, syncVars, queueVars, nonCryptoAuxVars>>
    \/ \E e \in Entries, n \in Nonces :
          SealUpdate(e, n) /\ UNCHANGED <<crdtVars, syncVars, queueVars, nonCryptoAuxVars>>
    \/ \E i \in 1 .. NonceLength + 2 : \E x \in Replacements(i) :
          Tamper(i, x) /\ UNCHANGED <<crdtVars, syncVars, queueVars, nonCryptoAuxVars>>
    \/ OpenFrame /\ UNCHANGED <<crdtVars, syncVars, queueVars, nonCryptoAuxVars>>

SpecCrypto == Init /\ [][CryptoNext]_vars

\* ------------------------------------------------------------------ what leaves the process
\* The module of SyncService is loaded in the local process:
\* getInstance({..., enableEncryption: true, encryptionKey: process.env.EXPO_PUBLIC_SYNC_KEY}),
\* k = NoKey when the variable is not set
GetInstance(k) ==
    /\ ~config.made
    /\ config' = [made |-> TRUE, enableEncryption |-> TRUE, encryptionKey |-> k]
    /\ UNCHANGED sentOut

\* What the WebrtcProvider made with {password} hands to peer q for Update u: the
\* Update sealed under the password if there is one, the Update as it is otherwise.
\* key = NoKey marks an Update that is not sealed.
ProviderPayload(password, q, u) == [to |-> q, key |-> password, update |-> u]

\* useMessageActions.sendMessage of the local process; the provider, made by
\* createSyncDocument with password: config.encryptionKey, broadcasts the Update of
\* the push to each connected peer
BroadcastSend(e) ==
    /\ Send(Local, e)
    /\ sentOut' = IF IsActive(Local)
                  THEN sentOut \cup {ProviderPayload(config.encryptionKey, q,
                                                     LocalUpdate(ydocs[Local], <<e>>))
                                        : q \in ConnectedPeers(Local)}
                  ELSE sentOut
    /\ UNCHANGED config

nonBroadcastAuxVars == <<typedVars, mirrorVars, lifeVars, topicVars, cryptoVars, presenceVars,
        observerVars, mergeVars, sessionVars, statusVars, sendVars, drainVars>>

BroadcastNext ==
    \/ \E k \in Keys \cup {NoKey} :
          GetInstance(k) /\ UNCHANGED <<crdtVars, syncVars, queueVars, nonBroadcastAuxVars>>
    \/ \E p \in Peers : (p = Local => config.made) /\ StartCreate(p)
                           /\ UNCHANGED <<crdtVars, queueVars, auxVars>>
    \/ \E p \in Peers : StartHydrate(p) /\ UNCHANGED <<crdtVars, queueVars, auxVars>>
    \/ Connect /\ UNCHANGED <<crdtVars, queueVars, auxVars>>
    \/ Disconnect /\ UNCHANGED <<crdtVars, queueVars, auxVars>>
    \/ \E e \in Entries : BroadcastSend(e) /\ UNCHANGED <<crdtVars, queueVars, nonBroadcastAuxVars>>

SpecBroadcast == Init /\ [][BroadcastNext]_vars

\* ------------------------------------------------------------------ PresenceService
\* "Active in last 60s", in clock ticks of 30 s
PresenceTimeout == 2

\* getActiveUsers(): the user objects of the states whose user.lastActivity is
\* less than the timeout before t
ActiveUsersOf(states, t) ==
    {states[p].user : p \in {q \in Peers : states[q].present
                                            /\ t - states[q].user.lastActivity < PresenceTimeout}}

GetActiveUsers == ActiveUsersOf(awStates, now)

\* the awareness emits 'change' when the states map has changed: every registered
\* handler calls getActiveUsers() and hands the result to its callback
EmitChange ==
    IF awStates' # awStates
    THEN /\ heard' = [c \in Callbacks |->
                         IF c \in handlers THEN ActiveUsersOf(awStates', now) ELSE heard[c]]
         /\ lastInvoked' = handlers
    ELSE /\ heard' = heard
         /\ lastInvoked' = {}

\* new PresenceService(ydoc, p) on device p: initializeLocalPresence sets the
\* state {user: {..., activeMessageId: null, lastActivity: Date.now()}}
InitializeLocalPresence(p) ==
    /\ ~awStates[p].present
    /\ awStates' = [awStates EXCEPT ![p] =
                       [present |-> TRUE,
                        user |-> [userId |-> p, activeMessageId |-> 0, lastActivity |-> now],
                        activeMessageId |-> NoField, lastActivity |-> NoField]]
    /\ lastTouched' = [lastTouched EXCEPT ![p] = now]
    /\ EmitChange
    /\ UNCHANGED <<now, handlers, unsubscribed>>

\* updateActivity(m) on device p: setLocalStateField('activeMessageId', m) and
\* setLocalStateField('lastActivity', Date.now()), fields of the state object
UpdateActivity(p, m) ==
    /\ awStates[p].present
    /\ awStates' = [awStates EXCEPT ![p].activeMessageId = m, ![p].lastActivity = now]
    /\ lastTouched' = [lastTouched EXCEPT ![p] = now]
    /\ EmitChange
    /\ UNCHANGED <<now, handlers, unsubscribed>>

\* onPresenceChange(c) in the local process: the handler is registered for 'change'
OnPresenceChange(c) ==
    /\ awStates[Local].present
    /\ c \notin handlers \cup unsubscribed
    /\ handlers' = handlers \cup {c}
    /\ lastInvoked' = {}
    /\ UNCHANGED <<now, awStates, heard, unsubscribed, lastTouched>>

\* the function onPresenceChange returned for c is called: awareness.off('change', handler)
Unsubscribe(c) ==
    /\ c \in handlers
    /\ handlers' = handlers \ {c}
    /\ unsubscribed' = unsubscribed \cup {c}
    /\ lastInvoked' = {}
    /\ UNCHANGED <<now, awStates, heard, lastTouched>>

\* time passes; no code of PresenceService runs
Tick ==
    /\ now < MaxTime
    /\ now' = now + 1
    /\ lastInvoked' = {}
    /\ UNCHANGED <<awStates, handlers, heard, unsubscribed, lastTouched>>

nonPresenceAuxVars == <<typedVars, mirrorVars, lifeVars, topicVars, cryptoVars, broadcastVars,
        observerVars, mergeVars, sessionVars, statusVars, sendVars, drainVars>>

PresenceNext ==
    \/ \E p \in Peers : InitializeLocalPresence(p)
                           /\ UNCHANGED <<crdtVars, syncVars, queueVars, nonPresenceAuxVars>>
    \/ \E p \in Peers, m \in Entries : UpdateActivity(p, m)
                           /\ UNCHANGED <<crdtVars, syncVars, queueVars, nonPresenceAuxVars>>
    \/ \E c \in Callbacks : OnPresenceChange(c)
                           /\ UNCHANGED <<crdtVars, syncVars, queueVars, nonPresenceAuxVars>>
    \/ \E c \in Callbacks : Unsubscribe(c)
                           /\ UNCHANGED <<crdtVars, syncVars, queueVars, nonPresenceAuxVars>>
    \/ Tick /\ UNCHANGED <<crdtVars, syncVars, queueVars, nonPresenceAuxVars>>

SpecPresence == Init /\ [][PresenceNext]_vars

\* ------------------------------------------------------------------ subscriptions
\* the rows arrive for the start of p: StartHydrate, where setupYjsToDatabase
\* registers the observer on the array and puts it in yobservers
ObserverStartHydrate(p) ==
    /\ StartHydrate(p)
    /\ yobservers' = [yobservers EXCEPT ![p] = TRUE]
    /\ cleaned' = [cleaned EXCEPT ![p] = FALSE]

\* cleanupConversationSync(p) called for a registered observer: the entry of
\* yobservers is deleted; the array is not told (no yarray.unobserve)
CleanupConversationSync(p) ==
    /\ observing[p]
    /\ yobservers' = [yobservers EXCEPT ![p] = FALSE]
    /\ cleaned' = [cleaned EXCEPT ![p] = TRUE]
    /\ UNCHANGED syncVars

\* stopConversationSync(p): cleanupConversationSync, then the Document and its
\* provider are destroyed
ObserverStop(p) ==
    /\ StopSync(p)
    /\ yobservers' = [yobservers EXCEPT ![p] = FALSE]
    /\ cleaned' = [cleaned EXCEPT ![p] = TRUE]

nonSubscriptionAuxVars ==
    <<typedVars, mirrorVars, lifeVars, topicVars, cryptoVars, broadcastVars, mergeVars, sessionVars, statusVars, sendVars, drainVars>>

SubscriptionNext ==
    \/ \E p \in Peers : InitializeLocalPresence(p)
          /\ UNCHANGED <<crdtVars, syncVars, queueVars, nonSubscriptionAuxVars, observerVars>>
    \/ \E p \in Peers, m \in Entries : UpdateActivity(p, m)
          /\ UNCHANGED <<crdtVars, syncVars, queueVars, nonSubscriptionAuxVars, observerVars>>
    \/ \E c \in Callbacks : OnPresenceChange(c)
          /\ UNCHANGED <<crdtVars, syncVars, queueVars, nonSubscriptionAuxVars, observerVars>>
    \/ \E c \in Callbacks : Unsubscribe(c)
          /\ UNCHANGED <<crdtVars, syncVars, queueVars, nonSubscriptionAuxVars, observerVars>>
    \/ StartCreate(Local) /\ UNCHANGED <<crdtVars, queueVars, auxVars>>
    \/ ObserverStartHydrate(Local)
          /\ UNCHANGED <<crdtVars, queueVars, nonSubscriptionAuxVars, presenceVars>>
    \/ CleanupConversationSync(Local)
          /\ UNCHANGED <<crdtVars, queueVars, nonSubscriptionAuxVars, presenceVars>>
    \/ ObserverStop(Local)
          /\ UNCHANGED <<crdtVars, queueVars, nonSubscriptionAuxVars, presenceVars>>
    \/ \E e \in Entries : Send(Local, e) /\ UNCHANGED <<crdtVars, queueVars, auxVars>>
    \/ \E e \in Entries : DbWrite(Local, e) /\ UNCHANGED <<crdtVars, queueVars, auxVars>>

SpecSubscription == Init /\ [][SubscriptionNext]_vars

\* ------------------------------------------------------------------ malformed Updates
\* an element of an Update that decodes to an item
IsItem(x) == DOMAIN x = {"id", "origin", "e"}

WellFormed(u) == \A i \in 1 .. Len(u) : IsItem(u[i])

\* the longest prefix of u that decodes
RECURSIVE DecodablePrefix(_)
DecodablePrefix(u) ==
    IF u = <<>> \/ ~IsItem(Head(u)) THEN <<>> ELSE <<Head(u)>> \o DecodablePrefix(Tail(u))

\* (mutation) a merge that integrates what it could decode before it fails
MergeUpdatePartial(doc, u) ==
    IF WellFormed(u) THEN [doc |-> MergeRemoteUpdate(doc, u), err |-> ""]
    ELSE [doc |-> MergeRemoteUpdate(doc, DecodablePrefix(u)), err |-> "InvalidUpdate"]

\* mergeRemoteUpdate of received bytes: the whole Update is decoded before any item
\* is integrated; an Update that does not decode fails with InvalidUpdate
MergeUpdate(doc, u) ==
    IF WellFormed(u) THEN [doc |-> MergeRemoteUpdate(doc, u), err |-> ""]
    ELSE [doc |-> doc, err |-> "InvalidUpdate"]

\* u with the element at place i turned into bytes that do not decode
Malformed(u, i) == [u EXCEPT ![i] = Junk]

\* device p pushes the Entries es in one transaction
MergeLocal(p, es) ==
    /\ Len(mergeDocs[p].seq) + Len(es) <= MaxItems
    /\ Cardinality(UNION {{u[i] : i \in 1 .. Len(u)} : u \in mergeWire}) + Len(es) <= MaxItems
    /\ mergeDocs' = [mergeDocs EXCEPT ![p] = ApplyLocalMutation(@, es)]
    /\ mergeWire' = mergeWire \cup {LocalUpdate(mergeDocs[p], es)}
    /\ UNCHANGED <<mergeErr, refusedAt, mergedAfterRefusal>>

\* device p receives the Update u, whole
MergeDeliver(p, u) ==
    /\ u \in mergeWire
    /\ u[1].id[1] # mergeDocs[p].client
    /\ mergeDocs' = [mergeDocs EXCEPT ![p] = MergeUpdate(@, u).doc]
    /\ mergeErr' = [mergeErr EXCEPT ![p] = MergeUpdate(mergeDocs[p], u).err]
    /\ mergedAfterRefusal' = IF p \in refusedAt /\ MergeUpdate(mergeDocs[p], u).doc # mergeDocs[p]
                             THEN mergedAfterRefusal \cup {p} ELSE mergedAfterRefusal
    /\ UNCHANGED <<mergeWire, refusedAt>>

\* device p receives the Update u with place i damaged
MergeDeliverMalformed(p, u, i) ==
    /\ u \in mergeWire
    /\ u[1].id[1] # mergeDocs[p].client
    /\ i \in 1 .. Len(u)
    /\ mergeDocs' = [mergeDocs EXCEPT ![p] = MergeUpdate(@, Malformed(u, i)).doc]
    /\ mergeErr' = [mergeErr EXCEPT ![p] = MergeUpdate(mergeDocs[p], Malformed(u, i)).err]
    /\ refusedAt' = refusedAt \cup {p}
    /\ UNCHANGED <<mergeWire, mergedAfterRefusal>>

nonMergeAuxVars ==
    <<typedVars, mirrorVars, lifeVars, topicVars, cryptoVars, broadcastVars, presenceVars,
      observerVars, sessionVars, statusVars, sendVars, drainVars>>

MergeNext ==
    \/ \E p \in Peers, es \in Batches :
          MergeLocal(p, es) /\ UNCHANGED <<crdtVars, syncVars, queueVars, nonMergeAuxVars>>
    \/ \E p \in Peers : \E u \in mergeWire :
          MergeDeliver(p, u) /\ UNCHANGED <<crdtVars, syncVars, queueVars, nonMergeAuxVars>>
    \/ \E p \in Peers : \E u \in mergeWire : \E i \in 1 .. Len(u) :
          MergeDeliverMalformed(p, u, i)
              /\ UNCHANGED <<crdtVars, syncVars, queueVars, nonMergeAuxVars>>

SpecMerge == Init /\ [][MergeNext]_vars

\* ------------------------------------------------------------------ provider objects
\* liveProviders[p] counts the WebrtcProvider objects of p's room that were
\* constructed and whose destroy() was not called.
\* startConversationSync(p) with no start of p in flight: StartCreate, whose
\* createSyncDocument constructs a provider and puts it in the map (over the entry
\* an earlier failed start may have left there)
SessionStart(p) ==
    /\ StartCreate(p)
    /\ liveProviders' = [liveProviders EXCEPT ![p] = @ + 1]

\* startConversationSync(p) called while an earlier call awaits the datastore read:
\* the active-set test passes, createSyncDocument constructs a Document and a
\* provider and puts them in the maps over the entries of the first call,
\* initializeConversationSync returns at its syncing test, and p is marked active.
\* The first call goes on with the Document it created.
SessionStartAgain(p) ==
    /\ startPc[p] = "hydrating"
    /\ ~activeConversations[p]
    /\ docsMade < MaxDocs
    /\ ydocs' = [ydocs EXCEPT ![p] = NewDoc(FreshClient)]
    /\ docsMade' = docsMade + 1
    /\ providers' = [providers EXCEPT ![p] = TRUE]
    /\ observing' = [observing EXCEPT ![p] = FALSE]
    /\ activeConversations' = [activeConversations EXCEPT ![p] = TRUE]
    /\ startPc' = [startPc EXCEPT ![p] = "replaced"]
    /\ liveProviders' = [liveProviders EXCEPT ![p] = @ + 1]
    /\ UNCHANGED <<syncing, db, dbq, connected, sent>>

\* messageDatabase.getMessagesByTopicId rejects: the finally block clears syncing,
\* startConversationSync logs and rethrows; nothing is destroyed or unregistered
SessionHydrateThrows(p) ==
    /\ startPc[p] \in {"hydrating", "replaced"}
    /\ syncing' = [syncing EXCEPT ![p] = FALSE]
    /\ startPc' = [startPc EXCEPT ![p] = "idle"]
    /\ UNCHANGED <<ydocs, providers, activeConversations, observing, db, dbq, connected,
                   docsMade, sent>>
    /\ UNCHANGED liveProviders

\* stopConversationSync(p) of an active conversation: destroySyncDocument calls
\* destroy() on the provider the map holds, if it holds one
SessionStop(p) ==
    /\ StopSync(p)
    /\ liveProviders' = [liveProviders EXCEPT ![p] = IF providers[p] THEN @ - 1 ELSE @]

nonSessionAuxVars ==
    <<typedVars, mirrorVars, lifeVars, topicVars, cryptoVars, broadcastVars, presenceVars,
      observerVars, mergeVars, statusVars, sendVars, drainVars>>

SessionNext ==
    \/ \E p \in Peers : SessionStart(p) /\ UNCHANGED <<crdtVars, queueVars, nonSessionAuxVars>>
    \/ \E p \in Peers : SessionStartAgain(p) /\ UNCHANGED <<crdtVars, queueVars, nonSessionAuxVars>>
    \/ \E p \in Peers : StartHydrate(p) /\ UNCHANGED <<crdtVars, queueVars, auxVars>>
    \/ \E p \in Peers : StartHydrateReplaced(p) /\ UNCHANGED <<crdtVars, queueVars, auxVars>>
    \/ \E p \in Peers : SessionHydrateThrows(p) /\ UNCHANGED <<crdtVars, queueVars, nonSessionAuxVars>>
    \/ \E p \in Peers : SessionStop(p) /\ UNCHANGED <<crdtVars, queueVars, nonSessionAuxVars>>
    \/ \E p \in Peers, e \in Entries : Send(p, e) /\ UNCHANGED <<crdtVars, queueVars, auxVars>>
    \/ \E p, q \in Peers : Deliver(p, q) /\ UNCHANGED <<crdtVars, queueVars, auxVars>>
    \/ Connect /\ UNCHANGED <<crdtVars, queueVars, auxVars>>

SpecSession == Init /\ [][SessionNext]_vars

\* ------------------------------------------------------------------ status
\* Date.now() at the hydration of device p
StampOf(p) == IF p = Local THEN 1 ELSE 2

\* a startConversationSync call is made: the Document createSyncDocument registers
\* has an empty metadata map
StatusStart(p) ==
    /\ StartCall(p)
    /\ started' = [started EXCEPT ![p] = TRUE]
    /\ lastSyncedAt' = [lastSyncedAt EXCEPT ![p] = Null]

\* the rows arrive: the hydration transaction pushes them and sets
\* ymeta 'lastSyncedAt' to Date.now()
StatusHydrate(p) ==
    /\ StartHydrate(p)
    /\ lastSyncedAt' = [lastSyncedAt EXCEPT ![p] = StampOf(p)]
    /\ UNCHANGED started

\* a stopConversationSync call from entry to return; if it destroys the Document
\* the metadata goes with it
StatusStop(p) ==
    /\ StopCall(p)
    /\ lastSyncedAt' = [lastSyncedAt EXCEPT ![p] = IF activeConversations[p] THEN Null ELSE @]
    /\ UNCHANGED started

\* the provider of p hands q the metadata map of p's Document; q's Document takes
\* the entry if it has none (the map is part of the shared Document)
StatusMetaDeliver(p, q) ==
    /\ p # q
    /\ connected
    /\ providers[p] /\ providers[q]
    /\ lastSyncedAt[p] # Null
    /\ lastSyncedAt[q] = Null
    /\ lastSyncedAt' = [lastSyncedAt EXCEPT ![q] = lastSyncedAt[p]]
    /\ UNCHANGED started
    /\ UNCHANGED syncVars

nonStatusAuxVars ==
    <<typedVars, mirrorVars, topicVars, cryptoVars, broadcastVars, presenceVars,
      observerVars, mergeVars, sessionVars, sendVars, drainVars>>

StatusNext ==
    \/ \E p \in Peers : StatusStart(p) /\ UNCHANGED <<crdtVars, queueVars, nonStatusAuxVars>>
    \/ \E p \in Peers : StatusHydrate(p) /\ UNCHANGED <<crdtVars, queueVars, nonStatusAuxVars, lifeVars>>
    \/ \E p \in Peers : StatusStop(p) /\ UNCHANGED <<crdtVars, queueVars, nonStatusAuxVars>>
    \/ \E p, q \in Peers : StatusMetaDeliver(p, q)
                              /\ UNCHANGED <<crdtVars, queueVars, nonStatusAuxVars, lifeVars>>
    \/ \E p \in Peers, e \in Entries : Send(p, e) /\ UNCHANGED <<crdtVars, queueVars, auxVars>>
    \/ \E p, q \in Peers : Deliver(p, q) /\ UNCHANGED <<crdtVars, queueVars, auxVars>>
    \/ Connect /\ UNCHANGED <<crdtVars, queueVars, auxVars>>

SpecStatus == Init /\ [][StatusNext]_vars

\* ------------------------------------------------------------------ ConversationSyncService.sendMessage
\* the message of the Error sendMessage throws
NotInitialized == "Conversation not initialized for sync"

\* (mutation) sendMessage without the test of the Document
SendMessageUnguarded(doc, e) == [err |-> "", doc |-> ApplyLocalMutation(doc, <<e>>)]

\* sendMessage(topicId, message) on the Document getSyncDocument returned (NoDoc
\* for undefined): throws if there is none, otherwise pushes the message in a
\* transaction
SendMessage(doc, e) ==
    IF doc.client = 0 THEN [err |-> NotInitialized, doc |-> doc]
    ELSE [err |-> "", doc |-> ApplyLocalMutation(doc, <<e>>)]

\* the application of p calls conversationSyncService.sendMessage with a new
\* message e; sendResult is what the call did: by whom, with which message, and the
\* message of the Error it threw ("" if it returned).  The observer, if registered,
\* issues the upsert of a pushed message.
SendMessageCall(p, e) ==
    /\ sent[e] = NotSent
    /\ sent' = [sent EXCEPT ![e] = [by |-> p, online |-> connected]]
    /\ LET r == SendMessage(ydocs[p], e)
       IN  /\ ydocs' = [ydocs EXCEPT ![p] = r.doc]
           /\ dbq' = [dbq EXCEPT ![p] =
                         IF r.err = "" THEN @ \cup ObserverUpserts(p, <<[e |-> e]>>) ELSE @]
           /\ sendResult' = [by |-> p, e |-> e, err |-> r.err]
    /\ UNCHANGED <<providers, activeConversations, syncing, observing, startPc, db,
                   connected, docsMade>>

nonSendAuxVars ==
    <<typedVars, mirrorVars, lifeVars, topicVars, cryptoVars, broadcastVars, presenceVars,
      observerVars, mergeVars, sessionVars, statusVars, drainVars>>

SendNext ==
    \/ \E p \in Peers : StartCreate(p) /\ UNCHANGED <<crdtVars, queueVars, auxVars>>
    \/ \E p \in Peers : StartHydrate(p) /\ UNCHANGED <<crdtVars, queueVars, auxVars>>
    \/ \E p \in Peers : StopSync(p) /\ UNCHANGED <<crdtVars, queueVars, auxVars>>
    \/ \E p \in Peers, e \in Entries :
          SendMessageCall(p, e) /\ UNCHANGED <<crdtVars, queueVars, nonSendAuxVars>>
    \/ \E e \in Entries : Enqueue(e) /\ UNCHANGED <<crdtVars, syncVars, auxVars>>
    \/ WriteLand /\ UNCHANGED <<crdtVars, syncVars, auxVars>>

SpecSend == Init /\ [][SendNext]_vars

\* ------------------------------------------------------------------ the drain and a failing storage
nonDrainAuxVars ==
    <<typedVars, mirrorVars, lifeVars, topicVars, cryptoVars, broadcastVars, presenceVars,
      observerVars, mergeVars, sessionVars, statusVars, sendVars>>

\* one iteration of the while loop; held is the object  const update = this.queue[0]
\* names (its id and the retryCount it has at the start of the iteration)
DrainStepHeld(t) ==
    /\ DrainStep(t)
    /\ held' = [id |-> QueueHead(queue).id, retryCount |-> QueueHead(queue).retryCount]
    /\ UNCHANGED threw
    /\ UNCHANGED <<crdtVars, nonDrainAuxVars>>

\* AsyncStorage rejects the setItem the drain awaits after a successful apply (the
\* log keeps its old content).  The rejection is thrown inside the inner try: the
\* catch block increments the retryCount of update, the object already shifted out
\* of the queue, and at retryCount >= 3 shifts the queue once more and goes on with
\* the loop, else breaks; the finally block clears the flag.
DrainPersistFails(t) ==
    /\ up
    /\ pc[t] = "persisting"
    /\ \E i \in 1 .. Len(writes) : writes[i].task = t
    /\ writes' = SelectSeq(writes, LAMBDA w : w.task # t)
    /\ threw' = TRUE
    /\ held' = [held EXCEPT !.retryCount = @ + 1]
    /\ IF Discards(held.retryCount + 1)
       THEN /\ queue' = IF queue = <<>> THEN queue ELSE Shift(queue)
            /\ reports' = Append(reports, held.id)
            /\ IF queue' = <<>> THEN Finish(t)
               ELSE /\ pc' = [pc EXCEPT ![t] = "loop"]
                    /\ UNCHANGED isProcessing
       ELSE /\ Finish(t)
            /\ UNCHANGED <<queue, reports>>
    /\ UNCHANGED <<up, stored, enqLog, enqDone, applied, lastApplied, refused, overlapped,
                   crashes>>
    /\ UNCHANGED <<crdtVars, syncVars, nonDrainAuxVars>>

\* the drain's setItem has been carried out
DrainPersistedOk(t) == DrainPersisted(t) /\ UNCHANGED <<crdtVars, syncVars, auxVars>>

\* AsyncStorage carries out the oldest outstanding setItem
StorageWrites == WriteLand /\ UNCHANGED <<crdtVars, syncVars, auxVars>>

DrainNext ==
    \/ \E e \in Entries : Enqueue(e) /\ UNCHANGED <<crdtVars, syncVars, auxVars>>
    \/ StorageWrites
    \/ \E t \in Tasks : ProcessQueue(t) /\ UNCHANGED <<crdtVars, syncVars, auxVars>>
    \/ \E t \in Tasks : DrainStepHeld(t)
    \/ \E t \in Tasks : DrainPersistedOk(t)
    \/ \E t \in Tasks : DrainPersistFails(t)
    \/ StartCreate(Local) /\ UNCHANGED <<crdtVars, queueVars, auxVars>>
    \/ StartHydrate(Local) /\ UNCHANGED <<crdtVars, queueVars, auxVars>>

\* The event loop runs every continuation of a started processQueue call, and
\* AsyncStorage settles every setItem (it carries it out or rejects it).
DrainFairness ==
    /\ WF_vars(StorageWrites)
    /\ \A t \in Tasks : WF_vars(DrainStepHeld(t))
    /\ \A t \in Tasks : WF_vars(DrainPersistedOk(t) \/ DrainPersistFails(t))

SpecDrain == Init /\ [][DrainNext]_vars /\ DrainFairness

\* ------------------------------------------------------------------ SpecCrdt claims
\* C1: two replicas that have applied the same set of Updates, in whatever orders,
\* hold the same Document and show the same visible Entry sequence.
C1_Convergence ==
    \A r1, r2 \in Replicas :
        UpdatesOf(r1) = UpdatesOf(r2) =>
            /\ Visible(rep[r1]) = Visible(rep[r2])
            /\ rep[r1].seq = rep[r2].seq

\* two replicas hold the same updates, two of them concurrent pushes
C1_Witness ==
    \E r1, r2 \in Replicas :
        /\ r1 # r2
        /\ UpdatesOf(r1) = UpdatesOf(r2)
        /\ \E u, v \in UpdatesOf(r1) : u # v /\ u[1].origin = v[1].origin
        /\ Len(rep[r1].seq) = MaxItems

\* C2: applying an Update again leaves the Document as one application left it.
C2_Idempotence ==
    \A r \in Replicas : \A u \in wire :
        MergeRemoteUpdate(MergeRemoteUpdate(rep[r], u), u) = MergeRemoteUpdate(rep[r], u)

C2_Witness == again

\* ------------------------------------------------------------------ Spec claims
Increasing(ids) == \A i, j \in 1 .. Len(ids) : i < j => ids[i] < ids[j]

IdsIn(q) == [i \in 1 .. Len(q) |-> q[i].id]

Count(seq, x) == Cardinality({i \in 1 .. Len(seq) : seq[i] = x})

\* C3: however the process is killed and restarted around a drain, no queued
\* mutation is applied to the Document a second time: the Document the restarted
\* process ends with shows each enqueued message at most once.
C3_ExactlyOnce ==
    \A i \in 1 .. Len(enqLog) : Count(Visible(ydocs[Local]), enqLog[i]) <= 1

\* C4: the queue keeps enqueue order, and whatever is still queued was enqueued
\* after the mutation the drain of this process run applied last: the drain never
\* applies b while an earlier a is still queued, and applies in enqueue order.
C4_DrainOrder ==
    /\ Increasing(IdsIn(queue))
    /\ \A i \in 1 .. Len(queue) : lastApplied < queue[i].id

\* one drain has applied the first mutation and then the second
C4_Witness == crashes = 0 /\ 1 \in applied /\ lastApplied = 2

\* C5: at most one drain loop is active, and the flag is set exactly while one is.
C5_SingleFlight ==
    /\ Cardinality({t \in Tasks : pc[t] # "idle"}) <= 1
    /\ isProcessing <=> (\E t \in Tasks : pc[t] # "idle")

\* a second processQueue call came while a drain was awaiting its write, and returned
C5_Witness ==
    /\ refused
    /\ \E t \in Tasks : pc[t] = "persisting"
    /\ queue # <<>>

C8_HydrationFirst ==
    \A p \in Peers : startPc[p] = "hydrating" => ydocs[p].seq = <<>>

\* C9: a Document's visible Entry sequence holds no Entry identifier twice.
C9_NoDuplicates ==
    \A p \in Peers : \A e \in Entries : Count(Visible(ydocs[p]), e) <= 1

\* A created m1 (Entry 1), B created m2 (Entry 2) while the peers were disconnected,
\* nothing else was created, and each peer has started sync once
Scenario ==
    /\ docsMade = 2
    /\ sent[1].by = "A"
    /\ sent[2].by = "B" /\ ~sent[2].online
    /\ \A e \in Entries \ {1, 2} : sent[e] = NotSent

\* the peers are connected with sync active, and no delivery, hydration or
\* datastore write is outstanding
Quiescent ==
    /\ connected
    /\ \A p \in Peers : IsActive(p) /\ providers[p] /\ startPc[p] = "idle" /\ dbq[p] = {}
    /\ \A p, q \in Peers : p # q => Missing(p, q) = <<>>

\* C10: in the two-peer scenario, once reconnected and everything outstanding has
\* been delivered and written, both Documents show the same sequence holding exactly
\* m1 and m2 and both datastores hold exactly the rows m1 and m2.
C10_TwoPeers ==
    Scenario /\ Quiescent =>
        /\ Visible(ydocs["A"]) = Visible(ydocs["B"])
        /\ Len(ydocs["A"].seq) = 2
        /\ \A e \in {1, 2} : Count(Visible(ydocs["A"]), e) = 1
        /\ \A p \in Peers : db[p] = {1, 2}

\* C18: the peerCount that getSyncStatus reports for a resource is the number of
\* peers its Document is connected with.
C18_PeerCount ==
    \A p \in Peers : GetSyncStatus(p).peerCount = Cardinality(ConnectedPeers(p))

\* ------------------------------------------------------------------ SpecTyped claims
\* every peer holds a Document and no peer's Document lacks an item of another's
Exchanged == \A p, q \in Peers : HasDoc(p) /\ (p # q => Missing(p, q) = <<>>)

\* C11: once A and B have each edited Entry e (no edit was known to the other
\* peer when it was made) and the peers have exchanged their Updates, both show the
\* same payload for e and it is the text of one of the two edits.
C11_EditResolution ==
    \A ua \in drained["A"], ub \in drained["B"] :
        (ua.type = "edit" /\ ub.type = "edit" /\ ua.e = ub.e /\ Exchanged) =>
            /\ TextOf(ydocs["A"], ua.e) = TextOf(ydocs["B"], ua.e)
            /\ TextOf(ydocs["A"], ua.e) \in {ua.text, ub.text}

\* C15: an Entry whose delete update a peer has drained as applied is still part of
\* that peer's Document, carries the tombstone flag there, and a tombstone operation
\* was issued for its datastore row.
C15_TombstoneOnDelete ==
    \A p \in Peers : \A u \in drained[p] :
        u.type = "delete" =>
            /\ InCausalState(ydocs[p], u.e)
            /\ Tombstoned(ydocs[p], u.e)
            /\ u.e \in tombOps[p]

\* ------------------------------------------------------------------ SpecMirror claims
\* C12: the upserts of one conversation take effect in the order the observer
\* issued them.
C12_WriteOrder == Increasing(landed)

\* C13: once the datastore is available again and no upsert is outstanding, the
\* Entry of every upsert that had failed is in the datastore.
C13_MirrorRetry ==
    (dbUp /\ Outstanding = {}) => \A n \in failed : issued[n] \in db[Local]

\* C14: a step in which an upsert fails leaves every Document as it was and brings
\* no error to a caller.
C14_NoRollback ==
    [][failed' # failed => (ydocs' = ydocs /\ surfaced' = surfaced /\ ~surfaced)]_vars

\* an upsert has failed and its Entry is still shown by the Document
C14_Witness ==
    \E n \in failed : \E i \in 1 .. Len(Visible(ydocs[Local])) : Visible(ydocs[Local])[i] = issued[n]

\* ------------------------------------------------------------------ SpecLife claims
\* C16: a resource that has a registered Document keeps that Document, with its
\* entries, for as long as one is registered: no step puts another Document in its
\* place.
C16_OpenIdempotent ==
    [][\A p \in Peers :
          (HasDoc(p) /\ ydocs'[p].client # 0) =>
              /\ ydocs'[p].client = ydocs[p].client
              /\ ItemsOf(ydocs[p]) \subseteq ItemsOf(ydocs'[p])
    ]_vars

\* C17: once a stopConversationSync call for a resource has returned, and no start
\* call has been made since, the resource has no provider and no Document
\* registered and is not reported active.
C17_StopComplete ==
    \A p \in Peers : stopRet[p] => (~providers[p] /\ ~HasDoc(p) /\ ~IsActive(p))

\* C23: when a stopConversationSync call for a resource has returned and the
\* startConversationSync call that was in flight has returned too, the resource is
\* not in the active set and has no provider and no Document.
C23_StopCancelsStart ==
    \A p \in Peers :
        (stopRet[p] /\ startPc[p] = "idle") =>
            (~activeConversations[p] /\ ~providers[p] /\ ~HasDoc(p))

\* ------------------------------------------------------------------ SpecTopics claims
\* C22: a conversation reported active has the Document-to-datastore observer
\* registered and its Document shows every persisted entry of the conversation,
\* whatever the other conversation was doing when it was started.
C22_DocumentIndependence ==
    \A t \in Topics :
        TopicIsActive(t) =>
            /\ topicObserved[t]
            /\ topicRows[t] \subseteq {Visible(topicDocs[t])[i] : i \in 1 .. Len(Visible(topicDocs[t]))}

\* ------------------------------------------------------------------ SpecTopicQueue claims
\* C21: a drain does not end while a queued mutation is left whose own
\* conversation has a Document (its apply would succeed): the failure of another
\* conversation's mutation does not keep it from being applied.
C21_FailureIsolation ==
    [][(isProcessing /\ ~isProcessing') =>
          \A i \in 1 .. Len(queue') : topicDocs'[queue'[i].topicId].client = 0
    ]_vars

\* ------------------------------------------------------------------ SpecOffline claims
\* C19: when the connection of the local Document comes up while mutations are
\* queued and no drain is running, the step starts a drain.
C19_DrainTrigger ==
    [][(~connected /\ connected' /\ HasDoc(Local) /\ queue # <<>> /\ ~isProcessing)
          => isProcessing']_vars

\* C20: a message the application sends while sync is not active for the
\* conversation is put in the Offline Queue by that send.
C20_OfflineRouting ==
    [][\A e \in Entries :
          (sent[e] = NotSent /\ sent'[e].by = Local /\ ~IsActive(Local)) =>
              \E i \in 1 .. Len(queue') : queue'[i].data = e
    ]_vars

\* ------------------------------------------------------------------ Spec claims, continued
\* C29: once every write handed to storage has been carried out, the durable log
\* holds no mutation that was discarded at the retry ceiling (so a restart that
\* reads the log cannot bring it back).
C29_DurableDiscard ==
    writes = <<>> => \A i \in 1 .. Len(reports) : reports[i] \notin QIds(stored)

\* ------------------------------------------------------------------ SpecCrypto claims
\* C24: when the receiver, holding a shared key, opens a frame that is not a frame
\* sealed under that key (it was altered in some place, or sealed under another
\* key), decrypt fails with 'Decryption failed' and no Document changes.
C24_TamperRejection ==
    [][(inFlight # <<>> /\ inFlight' = <<>> /\ sharedKey["B"] # NoKey
          /\ [frame |-> inFlight, key |-> sharedKey["B"]] \notin sealedFrames)
          => (outcome' = "Decryption failed" /\ secDoc' = secDoc)
    ]_vars

\* an altered frame was opened by a receiver holding the sender's key, after an
\* intact frame had been opened and merged
C24_Witness ==
    /\ outcome = "Decryption failed"
    /\ sharedKey["B"] # NoKey
    /\ sharedKey["B"] = sharedKey[Local]
    /\ secDoc["B"].seq # <<>>

\* ------------------------------------------------------------------ SpecBroadcast claims
\* C25: with encryption enabled in the configuration, every Update handed to a
\* peer is sealed under a key.
C25_EncryptedBroadcast ==
    config.enableEncryption => \A m \in sentOut : m.key # NoKey

\* ------------------------------------------------------------------ SpecPresence claims
\* C26: the devices getActiveUsers returns are exactly those with a state whose
\* most recent setLocalState / updateActivity is less than the timeout ago.
C26_ActivePeers ==
    {u.userId : u \in GetActiveUsers}
        = {p \in Peers : awStates[p].present /\ now - lastTouched[p] < PresenceTimeout}

\* C27: a step that changes what getActiveUsers returns invokes every subscribed
\* callback with the new list.
C27_PresenceNotification ==
    [][ActiveUsersOf(awStates', now') # GetActiveUsers =>
          \A c \in handlers' : c \in lastInvoked' /\ heard'[c] = ActiveUsersOf(awStates', now')
    ]_vars

\* ------------------------------------------------------------------ SpecSubscription claims
\* C30: no step invokes a presence callback whose unsubscribe function has been
\* called, and no step has the Document-to-datastore observer of a resource issue
\* an upsert once cleanupConversationSync has been called for it.
C30_UnsubscribeEffective ==
    [][/\ \A c \in unsubscribed : c \notin lastInvoked'
       /\ \A p \in Peers : cleaned[p] => dbq'[p] \subseteq dbq[p]
    ]_vars

C31_NoLeakedSessions ==
    \A p \in Peers :
        /\ liveProviders[p] <= 1
        /\ liveProviders[p] = (IF providers[p] THEN 1 ELSE 0)
        /\ (~activeConversations[p] /\ startPc[p] = "idle") => liveProviders[p] = 0

\* ------------------------------------------------------------------ SpecSync claims, continued
\* C32: once the start of a resource has completed, every Entry its Document shows
\* is in the local datastore or has an upsert issued for it, also an Entry that a
\* peer delivered while the start was awaiting the datastore read.
C32_NoMirrorGap ==
    \A p \in Peers :
        (IsActive(p) /\ startPc[p] = "idle") =>
            \A i \in 1 .. Len(Visible(ydocs[p])) : Visible(ydocs[p])[i] \in db[p] \cup dbq[p]

\* C33: in a running process with no enqueue and no processQueue call in flight
\* (no write outstanding, no drain running) the durable log equals the queue in
\* memory, element for element, each retryCount included.
C33_LogMatchesMemory ==
    (up /\ writes = <<>> /\ ~isProcessing) => stored = queue

\* ------------------------------------------------------------------ SpecTyped claims, continued
\* C34: the step in which a peer's drain removes a queued edit as applied leaves the
\* target Entry with the edited payload in that peer's Document, and the step that
\* removes a queued delete leaves the target Entry tombstoned.
C34_DrainedMeansApplied ==
    [][\A p \in Peers : \A u \in drained'[p] \ drained[p] :
          /\ u.type = "edit" => TextOf(ydocs'[p], u.e) = u.text
          /\ u.type = "delete" => Tombstoned(ydocs'[p], u.e)
    ]_vars

\* ------------------------------------------------------------------ SpecStatus claims
\* C35: getSyncStatus reports a resource active only if a Document is registered for
\* it; for a resource no start call was made for, or whose stop call has returned
\* with no start call made since, it returns {isActive: false, peerCount: 0,
\* lastSyncedAt: null}.
C35_StatusConsistency ==
    \A p \in Peers :
        /\ GetSyncStatus(p).isActive => HasDoc(p)
        /\ (~started[p] \/ stopRet[p]) =>
              GetSyncStatus(p) = [isActive |-> FALSE, peerCount |-> 0, lastSyncedAt |-> Null]

\* ------------------------------------------------------------------ SpecSend claims
\* C36: a sendMessage call for a resource with no registered Document throws
\* 'Conversation not initialized for sync' and leaves every Document, the active
\* set, the queue and the durable log as they were; a call for a resource that
\* getSyncStatus reports active returns and the message is in the Document.
C36_SendUninitialized ==
    [][sendResult' # sendResult =>
          LET p == sendResult'.by
              e == sendResult'.e
          IN  /\ ~HasDoc(p) =>
                    /\ sendResult'.err = NotInitialized
                    /\ ydocs' = ydocs
                    /\ activeConversations' = activeConversations
                    /\ queue' = queue /\ stored' = stored /\ writes' = writes
              /\ GetSyncStatus(p).isActive =>
                    /\ sendResult'.err = ""
                    /\ Count(Visible(ydocs'[p]), e) = 1
    ]_vars

\* the last call threw for a resource without a Document while another resource
\* was active with a message in its Document and an update was queued
C36_Witness ==
    /\ sendResult.err = NotInitialized
    /\ queue # <<>>
    /\ \E q \in Peers : IsActive(q) /\ ydocs[q].seq # <<>>

\* ------------------------------------------------------------------ SpecDrain claims
\* C37: the step in which a processQueue call returns, by whatever path, leaves
\* isProcessing false, and every processQueue call that has entered its loop
\* returns: it is eventually idle with the flag cleared.
C37_DrainTerminates ==
    /\ [][\A t \in Tasks : (pc[t] # "idle" /\ pc'[t] = "idle") => ~isProcessing']_vars
    /\ \A t \in Tasks : (pc[t] # "idle") ~> (pc[t] = "idle" /\ ~isProcessing)

\* every drain has returned and the flag is clear, after one update was discarded at
\* the retry ceiling, one was applied, and a write of the log was rejected
C37_Witness ==
    /\ ~isProcessing
    /\ \A t \in Tasks : pc[t] = "idle"
    /\ threw
    /\ reports # <<>>
    /\ applied # {}

====
